---- MODULE Spec2Model ----
(***************************************************************************)
(* Verification model of the VitrOS kernel core: the slab + buddy kernel   *)
(* heap (kernel/src/allocator.rs), the interrupt-masking critical section  *)
(* (kernel/src/sync/wait_queue.rs) and the address-space manager           *)
(* (kernel/src/paging.rs).                                                 *)
(***************************************************************************)
EXTENDS Integers, Sequences, FiniteSets, TLC

VARIABLES
    heap_cfg,       \* [start, size] handed to init_heap
    heap_inited,    \* KernelAllocator::init has run
    slab,           \* slab_caches[i].free_list, head first
    buddy,          \* buddy.free_lists[order], head first
    region_start,   \* buddy.region_start
    region_size,    \* buddy.region_size
    live,           \* blocks handed out and not yet freed
    cap0,           \* free capacity right after init: <<slab blocks, buddy bytes>>
    last_freed,     \* per class: the block pushed last and not popped since, or NULL
    op,             \* the last allocator call and what it did
    conv,           \* the last address conversion: its argument and its results
    boot,           \* BootInfo and the linker's layout of the kernel image
    pml4,           \* KERNEL_PML4: index -> entry, the entries set since clear()
    pdp,            \* KERNEL_PDP_HIGH
    pd,             \* KERNEL_PD_HIGH: <<pd index, entry index>> -> entry
    pt,             \* KERNEL_PT_HIGH: <<pt index, entry index>> -> entry
    cr3,            \* the table CR3 points at
    pg_op,          \* the last paging call and its result
    rflags_if,      \* RFLAGS.IF of the CPU
    cur,            \* the context the CPU runs: "boot", a task, "irq" or "idle"
    irq_ret,        \* the context the interrupt handler returns to
    cx,             \* per context: position, saved flags, locals, blocks it holds
    waiters,        \* WaitQueue::waiters, front first
    wq_buf,         \* the heap buffer of waiters (NULL while its capacity is 0)
    blocked,        \* tasks in state Blocked
    wi_op,          \* the last entry to or exit from wait_queue.rs without_interrupts
    sched,          \* the scheduler: tick, task states, ready and sleeping queue, current
    frequency_hz,   \* the tick frequency of the timer source
    wq,             \* the waiters of the wait queues, front first
    mtx,            \* the blocking mutex: its lock word and the guards alive
    tcx,            \* per task: position in the call under way and its locals
    cpu,            \* the exception handler the CPU sits in, and RFLAGS.IF
    sch_op,         \* the last scheduler, wait queue, mutex or exception step
    bd,             \* a BuddyAllocator on its own: region, free lists, blocks handed out
    vis_mode,       \* visualize-pipeline is built in and MINI_VIS_STATE is Some
    compositor,     \* COMPOSITOR: None, or Some with the Arc its buffers field points at
    vecs,           \* the Vec<SharedBuffer> allocated so far, by address
    wbuf,           \* the WriterBuffers created so far, each with its BlockingMutex
    gt,             \* per task: position in the compositor or writer code, its locals
    shadow,         \* the compositor task's ShadowBuffer: cell -> colour
    hw_fb,          \* the hardware framebuffer: cell -> colour
    gfx_op,         \* the last step of the graphics pipeline
    mmio_tab        \* a memory map, the MMIO range table built from it, the last lookup

heapVars == <<heap_cfg, heap_inited, slab, buddy, region_start, region_size,
              live, cap0, last_freed, op>>

addrVars == <<conv>>

pagingVars == <<boot, pml4, pdp, pd, pt, cr3, pg_op>>

irqVars == <<rflags_if, cur, irq_ret, cx, waiters, wq_buf, blocked, wi_op>>

schedVars == <<sched, frequency_hz, wq, mtx, tcx, cpu, sch_op>>

buddyVars == <<bd>>

gfxVars == <<vis_mode, compositor, vecs, wbuf, gt, shadow, hw_fb, gfx_op>>

mmioVars == <<mmio_tab>>

vars == <<heapVars, addrVars, pagingVars, irqVars, schedVars, buddyVars, gfxVars, mmioVars>>

\* what the operations of one subsystem leave alone
outsideHeap == <<addrVars, pagingVars, irqVars, schedVars, buddyVars, gfxVars, mmioVars>>
outsideAddr == <<heapVars, pagingVars, irqVars, schedVars, buddyVars, gfxVars, mmioVars>>
outsidePaging == <<heapVars, addrVars, irqVars, schedVars, buddyVars, gfxVars, mmioVars>>
outsideIrq == <<heap_cfg, heap_inited, region_start, region_size, live, cap0,
               last_freed, op, addrVars, pagingVars, schedVars, buddyVars, gfxVars, mmioVars>>
outsideSched == <<heapVars, addrVars, pagingVars, irqVars, buddyVars, gfxVars, mmioVars>>
outsideBuddy == <<heapVars, addrVars, pagingVars, irqVars, schedVars, gfxVars, mmioVars>>
outsideMmio == <<heapVars, addrVars, pagingVars, irqVars, schedVars, buddyVars, gfxVars>>
\* the graphics pipeline runs on the scheduler
outsideGfx == <<heapVars, addrVars, pagingVars, irqVars, buddyVars, frequency_hz, wq, mtx,
               tcx, mmioVars>>

(***************************************************************************)
(* Bounds of the model                                                     *)
(***************************************************************************)
MaxLive == 2
\* blocks a context holds at a time
MaxOwned == 1
\* mapping calls after paging init
MaxPagingCalls == 2
\* timer ticks
MaxTick == 3
\* ids in a wait queue
MaxWaiters == 2
\* blocks held at a time from the buddy allocator on its own
MaxBuddyLive == 4

NULL == 0

Max(a, b) == IF a >= b THEN a ELSE b
Min(a, b) == IF a <= b THEN a ELSE b

RECURSIVE Pow2(_)
Pow2(n) == IF n = 0 THEN 1 ELSE 2 * Pow2(n - 1)

\* usize::BITS - n.leading_zeros(): the number of significant bits of n
RECURSIVE BitLen(_)
BitLen(n) == IF n = 0 THEN 0 ELSE 1 + BitLen(n \div 2)

\* n.trailing_zeros() for n > 0
RECURSIVE trailing_zeros(_)
trailing_zeros(n) == IF n % 2 = 1 THEN 0 ELSE 1 + trailing_zeros(n \div 2)

saturating_sub(a, b) == IF a >= b THEN a - b ELSE 0

(***************************************************************************)
(* kernel/src/allocator.rs                                                 *)
(***************************************************************************)
SIZE_CLASSES == <<8, 16, 32, 64, 128, 256, 512, 1024, 2048, 4096>>
NUM_SIZE_CLASSES == Len(SIZE_CLASSES)
MIN_SLAB_SIZE_LOG2 == 3
MIN_BLOCK_SIZE == 4096
MIN_BLOCK_SIZE_LOG2 == 12
MAX_ORDER == 13

Classes == 0 .. (NUM_SIZE_CLASSES - 1)
Orders == 0 .. (MAX_ORDER - 1)
NoClass == -1

ClassSize(i) == SIZE_CLASSES[i + 1]

\* align is a power of two, so !(align - 1) masks the low bits away
align_up(addr, align) == ((addr + align - 1) \div align) * align
align_down(addr, align) == (addr \div align) * align

order_to_size(order) == MIN_BLOCK_SIZE * Pow2(order)

size_to_order(size) ==
    IF size <= MIN_BLOCK_SIZE THEN 0
    ELSE saturating_sub(BitLen(size - 1), MIN_BLOCK_SIZE_LOG2)

max_order_for_size(size) ==
    IF size < MIN_BLOCK_SIZE THEN 0
    ELSE saturating_sub(BitLen(size) - 1, MIN_BLOCK_SIZE_LOG2)

\* relative ^ order_to_size(order): flips one bit
buddy_address(rs, addr, order) ==
    LET relative == addr - rs
        s == order_to_size(order)
    IN  rs + (IF (relative \div s) % 2 = 1 THEN relative - s ELSE relative + s)

add_to_free_list(fl, addr, order) == [fl EXCEPT ![order] = <<addr>> \o @]

is_in_free_list(fl, addr, order) == \E i \in 1 .. Len(fl[order]) : fl[order][i] = addr

\* mutant: the buddy is not spliced out of its list before the merge
remove_node_from_free_list_NoSplice(fl, addr, order) == fl

remove_node_from_free_list(fl, addr, order) ==
    [fl EXCEPT ![order] = SelectSeq(@, LAMBDA a : a # addr)]

EmptyBuddy == [o \in Orders |-> <<>>]
EmptySlab == [c \in Classes |-> <<>>]

\* the carving loop of BuddyAllocator::init
RECURSIVE BuddyInitLoop(_, _, _, _)
BuddyInitLoop(fl, current, remaining, aligned_start) ==
    IF remaining < MIN_BLOCK_SIZE THEN fl
    ELSE
        LET max_order_by_size == Min(max_order_for_size(remaining), MAX_ORDER - 1)
            relative == current - aligned_start
            max_order_by_align ==
                IF relative = 0 THEN MAX_ORDER - 1
                ELSE saturating_sub(trailing_zeros(relative), MIN_BLOCK_SIZE_LOG2)
            order == Min(max_order_by_size, max_order_by_align)
            block_size == order_to_size(order)
        IN  BuddyInitLoop(add_to_free_list(fl, current, order),
                          current + block_size, remaining - block_size, aligned_start)

BuddyAllocator_init(rstart, rsize) ==
    LET aligned_start == align_up(rstart, MIN_BLOCK_SIZE)
        aligned_end == align_down(rstart + rsize, MIN_BLOCK_SIZE)
        aligned_size == saturating_sub(aligned_end, aligned_start)
    IN  [region_start |-> aligned_start,
         region_size |-> aligned_size,
         free_lists |-> BuddyInitLoop(EmptyBuddy, aligned_start, aligned_size, aligned_start)]

\* mutant: the split puts the lower half on the free list, which is the half
\* that is handed out
RECURSIVE BuddySplit_LowerHalf(_, _, _, _)
BuddySplit_LowerHalf(fl, block_addr, order, required_order) ==
    IF order < required_order THEN fl
    ELSE BuddySplit_LowerHalf(add_to_free_list(fl, block_addr, order),
                              block_addr, order - 1, required_order)

\* the split loop of BuddyAllocator::allocate, order running down from found_order - 1
RECURSIVE BuddySplit(_, _, _, _)
BuddySplit(fl, block_addr, order, required_order) ==
    IF order < required_order THEN fl
    ELSE BuddySplit(add_to_free_list(fl, block_addr + order_to_size(order), order),
                    block_addr, order - 1, required_order)

\* mutant: the scan for a free block starts at order 0, not at the required order
BuddyAllocator_allocate_ScanFromZero(fl, size, align) ==
    LET sz == Max(Max(size, align), MIN_BLOCK_SIZE)
        required_order == size_to_order(sz)
        none == [ptr |-> NULL, free_lists |-> fl, order |-> required_order]
    IN  IF required_order >= MAX_ORDER THEN none
        ELSE
            LET cand == {o \in Orders : fl[o] # <<>>}
            IN  IF cand = {} THEN none
                ELSE
                    LET found_order == CHOOSE o \in cand : \A p \in cand : o <= p
                        block_addr == Head(fl[found_order])
                        popped == [fl EXCEPT ![found_order] = Tail(@)]
                    IN  [ptr |-> block_addr,
                         free_lists |-> BuddySplit(popped, block_addr,
                                                   found_order - 1, required_order),
                         order |-> required_order]

\* mutant: the block is taken from the largest non-empty list
BuddyAllocator_allocate_TakesLargest(fl, size, align) ==
    LET sz == Max(Max(size, align), MIN_BLOCK_SIZE)
        required_order == size_to_order(sz)
        none == [ptr |-> NULL, free_lists |-> fl, order |-> required_order]
    IN  IF required_order >= MAX_ORDER THEN none
        ELSE
            LET cand == {o \in required_order .. (MAX_ORDER - 1) : fl[o] # <<>>}
            IN  IF cand = {} THEN none
                ELSE
                    LET found_order == CHOOSE o \in cand : \A p \in cand : o >= p
                        block_addr == Head(fl[found_order])
                        popped == [fl EXCEPT ![found_order] = Tail(@)]
                    IN  [ptr |-> block_addr,
                         free_lists |-> BuddySplit(popped, block_addr,
                                                   found_order - 1, required_order),
                         order |-> required_order]

BuddyAllocator_allocate(fl, size, align) ==
    LET sz == Max(Max(size, align), MIN_BLOCK_SIZE)
        required_order == size_to_order(sz)
        none == [ptr |-> NULL, free_lists |-> fl, order |-> required_order]
    IN  IF required_order >= MAX_ORDER THEN none
        ELSE
            LET cand == {o \in required_order .. (MAX_ORDER - 1) : fl[o] # <<>>}
            IN  IF cand = {} THEN none
                ELSE
                    LET found_order == CHOOSE o \in cand : \A p \in cand : o <= p
                        block_addr == Head(fl[found_order])
                        popped == [fl EXCEPT ![found_order] = Tail(@)]
                    IN  [ptr |-> block_addr,
                         free_lists |-> BuddySplit(popped, block_addr,
                                                   found_order - 1, required_order),
                         order |-> required_order]

\* mutant: the merged block keeps the address of the freed block
RECURSIVE BuddyMerge_KeepsAddr(_, _, _, _, _)
BuddyMerge_KeepsAddr(fl, rs, rend, block_addr, order) ==
    IF order >= MAX_ORDER - 1 THEN add_to_free_list(fl, block_addr, order)
    ELSE
        LET buddy_addr == buddy_address(rs, block_addr, order)
        IN  IF buddy_addr < rs \/ buddy_addr >= rend
                THEN add_to_free_list(fl, block_addr, order)
            ELSE IF ~is_in_free_list(fl, buddy_addr, order)
                THEN add_to_free_list(fl, block_addr, order)
            ELSE BuddyMerge_KeepsAddr(remove_node_from_free_list(fl, buddy_addr, order),
                                      rs, rend, block_addr, order + 1)

\* mutant: the freed block is pushed onto its list without looking at its buddy
BuddyMerge_NoCoalesce(fl, rs, rend, block_addr, order) ==
    add_to_free_list(fl, block_addr, order)

\* the coalescing loop of BuddyAllocator::deallocate
RECURSIVE BuddyMerge(_, _, _, _, _)
BuddyMerge(fl, rs, rend, block_addr, order) ==
    IF order >= MAX_ORDER - 1 THEN add_to_free_list(fl, block_addr, order)
    ELSE
        LET buddy_addr == buddy_address(rs, block_addr, order)
        IN  IF buddy_addr < rs \/ buddy_addr >= rend
                THEN add_to_free_list(fl, block_addr, order)
            ELSE IF ~is_in_free_list(fl, buddy_addr, order)
                THEN add_to_free_list(fl, block_addr, order)
            ELSE BuddyMerge(remove_node_from_free_list(fl, buddy_addr, order),
                            rs, rend, Min(block_addr, buddy_addr), order + 1)

BuddyAllocator_deallocate(fl, rs, rsize, ptr, size, align) ==
    LET sz == Max(Max(size, align), MIN_BLOCK_SIZE)
        order == size_to_order(sz)
    IN  BuddyMerge(fl, rs, rs + rsize, ptr, order)

\* SlabCache::add_slab pushes the blocks in ascending order, so the last one is the head
add_slab(slab_start, slab_size, block_size) ==
    LET num_blocks == slab_size \div block_size
    IN  [i \in 1 .. num_blocks |-> slab_start + (num_blocks - i) * block_size]

\* start address of the sub-region of class i: the aligned sizes before it added up
RECURSIVE SlabClassStart(_, _, _)
SlabClassStart(hstart, slab_region_size, i) ==
    IF i = 0 THEN hstart
    ELSE SlabClassStart(hstart, slab_region_size, i - 1)
         + align_down(slab_region_size \div NUM_SIZE_CLASSES, ClassSize(i - 1))

KernelAllocator_init(hstart, hsize) ==
    LET slab_region_size == hsize \div 2
        buddy_region_start == hstart + slab_region_size
        buddy_region_size == hsize - slab_region_size
        slab_size == slab_region_size \div NUM_SIZE_CLASSES
    IN  [slab |-> [c \in Classes |->
                     add_slab(SlabClassStart(hstart, slab_region_size, c),
                              align_down(slab_size, ClassSize(c)), ClassSize(c))],
         buddy |-> BuddyAllocator_init(buddy_region_start, buddy_region_size)]

\* mutant: the class is chosen by rounding the size down to a power of two
size_to_class_Floor(size) ==
    IF size = 0 THEN 0
    ELSE IF size > 4096 THEN NoClass
    ELSE saturating_sub(BitLen(size) - 1, MIN_SLAB_SIZE_LOG2)

size_to_class(size) ==
    IF size = 0 THEN 0
    ELSE IF size > 4096 THEN NoClass
    ELSE saturating_sub(BitLen(size - 1), MIN_SLAB_SIZE_LOG2)

\* mutant: the slab pop takes the oldest block of the list, not its head
KernelAllocator_alloc_PopsOldest(sl, fl, size, align) ==
    LET sz == Max(size, align)
        class_idx == size_to_class(sz)
    IN  IF class_idx # NoClass /\ sl[class_idx] # <<>>
        THEN [ptr |-> sl[class_idx][Len(sl[class_idx])], tier |-> "slab", idx |-> class_idx,
              slab |-> [sl EXCEPT ![class_idx] = SubSeq(@, 1, Len(@) - 1)], buddy |-> fl]
        ELSE LET r == BuddyAllocator_allocate(fl, size, align)
             IN  [ptr |-> r.ptr, tier |-> "buddy", idx |-> r.order,
                  slab |-> sl, buddy |-> r.free_lists]

\* GlobalAlloc::alloc: the pointer, the tier that served it and the lists afterwards
KernelAllocator_alloc(sl, fl, size, align) ==
    LET sz == Max(size, align)
        class_idx == size_to_class(sz)
    IN  IF class_idx # NoClass /\ sl[class_idx] # <<>>
        THEN [ptr |-> Head(sl[class_idx]), tier |-> "slab", idx |-> class_idx,
              slab |-> [sl EXCEPT ![class_idx] = Tail(@)], buddy |-> fl]
        ELSE LET r == BuddyAllocator_allocate(fl, size, align)
             IN  [ptr |-> r.ptr, tier |-> "buddy", idx |-> r.order,
                  slab |-> sl, buddy |-> r.free_lists]

\* mutant: dealloc routes by the layout's size class alone, not by the address
KernelAllocator_dealloc_RoutesByLayout(sl, fl, rs, rsize, ptr, size, align) ==
    LET class_idx == size_to_class(Max(size, align))
    IN  IF class_idx # NoClass
        THEN [tier |-> "slab", idx |-> class_idx,
              slab |-> [sl EXCEPT ![class_idx] = <<ptr>> \o @], buddy |-> fl]
        ELSE [tier |-> "buddy",
              idx |-> size_to_order(Max(Max(size, align), MIN_BLOCK_SIZE)),
              slab |-> sl,
              buddy |-> BuddyAllocator_deallocate(fl, rs, rsize, ptr, size, align)]

\* GlobalAlloc::dealloc for a layout of non-zero size
KernelAllocator_dealloc(sl, fl, rs, rsize, ptr, size, align) ==
    IF ptr >= rs
    THEN [tier |-> "buddy",
          idx |-> size_to_order(Max(Max(size, align), MIN_BLOCK_SIZE)),
          slab |-> sl,
          buddy |-> BuddyAllocator_deallocate(fl, rs, rsize, ptr, size, align)]
    ELSE LET class_idx == size_to_class(Max(size, align))
         IN  IF class_idx # NoClass
             THEN [tier |-> "slab", idx |-> class_idx,
                   slab |-> [sl EXCEPT ![class_idx] = <<ptr>> \o @], buddy |-> fl]
             ELSE [tier |-> "none", idx |-> NoClass, slab |-> sl, buddy |-> fl]

(***************************************************************************)
(* Heap state machine                                                      *)
(***************************************************************************)
\* heap regions handed to init_heap: page-aligned conventional-memory blocks
HeapConfigs == {[start |-> 256 * 4096, size |-> 24 * 1024],
                [start |-> 257 * 4096, size |-> 40 * 1024]}

\* layouts the callers use: size > 0, align a power of two
Layouts == {[size |-> 12, align |-> 1],
            [size |-> 200, align |-> 1],
            [size |-> 256, align |-> 256],
            [size |-> 4096, align |-> 4096],
            [size |-> 8192, align |-> 8192],
            [size |-> 16 * 1024 * 1024 + 1, align |-> 8]}

SlabFreeBlocks(sl) ==
    LET RECURSIVE Sum(_)
        Sum(c) == IF c < 0 THEN 0 ELSE Len(sl[c]) + Sum(c - 1)
    IN  Sum(NUM_SIZE_CLASSES - 1)

BuddyFreeBytes(fl) ==
    LET RECURSIVE Sum(_)
        Sum(o) == IF o < 0 THEN 0 ELSE Len(fl[o]) * order_to_size(o) + Sum(o - 1)
    IN  Sum(MAX_ORDER - 1)

\* the request cannot be satisfied: the order is out of range, or the slab class is
\* empty (or absent) and no buddy list of sufficient order holds a block
Unsatisfiable(sl, fl, size, align) ==
    LET class_idx == size_to_class(Max(size, align))
        r == size_to_order(Max(Max(size, align), MIN_BLOCK_SIZE))
        slabEmpty == class_idx = NoClass \/ sl[class_idx] = <<>>
    IN  \/ slabEmpty /\ r >= MAX_ORDER
        \/ slabEmpty /\ \A o \in Orders : o >= r => fl[o] = <<>>

NoOp == [kind |-> "none", size |-> 0, align |-> 1, ptr |-> NULL,
         tier |-> "none", idx |-> NoClass, a_tier |-> "none", a_idx |-> NoClass,
         unsat |-> FALSE, changed |-> FALSE, prev_freed |-> NULL]

HeapInitState ==
    /\ heap_cfg \in HeapConfigs
    /\ heap_inited = FALSE
    /\ slab = EmptySlab
    /\ buddy = EmptyBuddy
    /\ region_start = 0
    /\ region_size = 0
    /\ live = {}
    /\ cap0 = <<0, 0>>
    /\ last_freed = [c \in Classes |-> NULL]
    /\ op = NoOp

\* init_heap(heap_start, heap_size)
HeapInit ==
    /\ ~heap_inited
    /\ LET r == KernelAllocator_init(heap_cfg.start, heap_cfg.size)
       IN  /\ slab' = r.slab
           /\ buddy' = r.buddy.free_lists
           /\ region_start' = r.buddy.region_start
           /\ region_size' = r.buddy.region_size
           /\ cap0' = <<SlabFreeBlocks(r.slab), BuddyFreeBytes(r.buddy.free_lists)>>
    /\ heap_inited' = TRUE
    /\ op' = [NoOp EXCEPT !.kind = "init"]
    /\ UNCHANGED <<heap_cfg, live, last_freed>>
    /\ UNCHANGED outsideHeap

Alloc(l) ==
    /\ heap_inited
    /\ LET r == KernelAllocator_alloc(slab, buddy, l.size, l.align)
       IN  /\ (r.ptr = NULL \/ Cardinality(live) < MaxLive)
           /\ slab' = r.slab
           /\ buddy' = r.buddy
           /\ live' = IF r.ptr = NULL THEN live
                      ELSE live \cup {[ptr |-> r.ptr, size |-> l.size, align |-> l.align,
                                       tier |-> r.tier, idx |-> r.idx]}
           /\ op' = [NoOp EXCEPT !.kind = "alloc", !.size = l.size, !.align = l.align,
                       !.ptr = r.ptr, !.tier = r.tier, !.idx = r.idx,
                       !.unsat = Unsatisfiable(slab, buddy, l.size, l.align),
                       !.changed = (r.slab # slab \/ r.buddy # buddy),
                       !.prev_freed =
                           LET c == size_to_class(Max(l.size, l.align))
                           IN  IF c = NoClass THEN NULL ELSE last_freed[c]]
           /\ last_freed' = IF r.tier = "slab"
                            THEN [last_freed EXCEPT ![r.idx] = NULL] ELSE last_freed
    /\ UNCHANGED <<heap_cfg, heap_inited, region_start, region_size, cap0>>
    /\ UNCHANGED outsideHeap

Dealloc(b) ==
    /\ heap_inited
    /\ b \in live
    /\ LET r == KernelAllocator_dealloc(slab, buddy, region_start, region_size,
                                        b.ptr, b.size, b.align)
       IN  /\ slab' = r.slab
           /\ buddy' = r.buddy
           /\ op' = [NoOp EXCEPT !.kind = "dealloc", !.size = b.size, !.align = b.align,
                       !.ptr = b.ptr, !.tier = r.tier, !.idx = r.idx,
                       !.a_tier = b.tier, !.a_idx = b.idx,
                       !.changed = (r.slab # slab \/ r.buddy # buddy)]
           /\ last_freed' = IF r.tier = "slab"
                            THEN [last_freed EXCEPT ![r.idx] = b.ptr] ELSE last_freed
    /\ live' = live \ {b}
    /\ UNCHANGED <<heap_cfg, heap_inited, region_start, region_size, cap0>>
    /\ UNCHANGED outsideHeap

\* dealloc with a zero-size layout returns at once
DeallocZst ==
    /\ heap_inited
    /\ op.kind # "dealloc_zst"
    /\ op' = [NoOp EXCEPT !.kind = "dealloc_zst"]
    /\ UNCHANGED <<heap_cfg, heap_inited, slab, buddy, region_start, region_size,
                   live, cap0, last_freed>>
    /\ UNCHANGED outsideHeap

HeapNext ==
    \/ HeapInit
    \/ \E l \in Layouts : Alloc(l)
    \/ \E b \in live : Dealloc(b)
    \/ DeallocZst

(***************************************************************************)
(* kernel/src/allocator.rs: the BuddyAllocator on its own, as its unit     *)
(* tests drive it: init on a region, allocate, deallocate                  *)
(***************************************************************************)
MiB == 1024 * 1024

\* regions handed to BuddyAllocator::init: one 4 MiB block, and a region that
\* is carved into blocks of the orders 2, 1 and 0 from an unaligned start
BuddyRegions == {[start |-> 4 * MiB, size |-> 4 * MiB],
                 [start |-> 300 * 4096 + 16, size |-> 32 * 1024 + 100]}

\* layouts of the orders 8, 0 and 9, and one beyond the largest order
BuddyLayouts == {[size |-> MiB, align |-> 8],
                 [size |-> 100, align |-> 8],
                 [size |-> 2 * MiB, align |-> 8],
                 [size |-> 16 * MiB + 1, align |-> 8]}

NoBuddyOp == [kind |-> "none", ptr |-> NULL, order |-> 0]

BuddyNew(cfg) ==
    [cfg |-> cfg, inited |-> FALSE, region_start |-> 0, region_size |-> 0,
     free_lists |-> EmptyBuddy, held |-> <<>>, op |-> NoBuddyOp, run |-> "off"]

BuddyIdle == bd = BuddyNew([start |-> 0, size |-> 0])

BuddyStart == \E cfg \in BuddyRegions : bd = BuddyNew(cfg)

\* the layout's order, as allocate and deallocate compute it
layout_order(size, align) == size_to_order(Max(Max(size, align), MIN_BLOCK_SIZE))

\* the calls made since init are a prefix of: four allocations of 1 MiB from a
\* region that held one block of order 10, then frees of the block allocated last
RunAfterInit(fl) ==
    IF \A o \in Orders : Len(fl[o]) = (IF o = 10 THEN 1 ELSE 0) THEN "allocating" ELSE "off"

RunAfterAllocate(b, l, ptr) ==
    IF b.run = "allocating" /\ l.size = MiB /\ ptr # NULL /\ Len(b.held) < 4
    THEN "allocating" ELSE "off"

RunAfterDeallocate(b, i) ==
    IF /\ i = Len(b.held)
       /\ \/ b.run = "freeing"
          \/ b.run = "allocating" /\ Len(b.held) = 4
    THEN "freeing" ELSE "off"

\* BuddyAllocator::init(region_start, region_size)
BuddyInit ==
    /\ ~bd.inited
    /\ LET r == BuddyAllocator_init(bd.cfg.start, bd.cfg.size)
       IN  bd' = [bd EXCEPT !.inited = TRUE,
                            !.region_start = r.region_start,
                            !.region_size = r.region_size,
                            !.free_lists = r.free_lists,
                            !.op = [NoBuddyOp EXCEPT !.kind = "init"],
                            !.run = RunAfterInit(r.free_lists)]
    /\ UNCHANGED outsideBuddy

\* BuddyAllocator::allocate(layout)
BuddyAllocate(l) ==
    /\ bd.inited
    /\ LET r == BuddyAllocator_allocate(bd.free_lists, l.size, l.align)
       IN  /\ (r.ptr = NULL \/ Len(bd.held) < MaxBuddyLive)
           /\ bd' = [bd EXCEPT !.free_lists = r.free_lists,
                               !.held = IF r.ptr = NULL THEN @
                                        ELSE Append(@, [ptr |-> r.ptr, size |-> l.size,
                                                        align |-> l.align]),
                               !.op = [kind |-> "allocate", ptr |-> r.ptr,
                                       order |-> r.order],
                               !.run = RunAfterAllocate(bd, l, r.ptr)]
    /\ UNCHANGED outsideBuddy

\* BuddyAllocator::deallocate(ptr, layout) of the i-th block held
BuddyDeallocate(i) ==
    /\ bd.inited
    /\ i \in 1 .. Len(bd.held)
    /\ LET b == bd.held[i]
       IN  bd' = [bd EXCEPT !.free_lists =
                                BuddyAllocator_deallocate(bd.free_lists, bd.region_start,
                                                          bd.region_size, b.ptr, b.size,
                                                          b.align),
                            !.held = SubSeq(@, 1, i - 1) \o SubSeq(@, i + 1, Len(@)),
                            !.op = [kind |-> "deallocate", ptr |-> b.ptr,
                                    order |-> layout_order(b.size, b.align)],
                            !.run = RunAfterDeallocate(bd, i)]
    /\ UNCHANGED outsideBuddy

BuddyNext ==
    \/ BuddyInit
    \/ \E l \in BuddyLayouts : BuddyAllocate(l)
    \/ \E i \in 1 .. MaxBuddyLive : BuddyDeallocate(i)

(***************************************************************************)
(* kernel/src/paging.rs: physical <-> virtual conversion.  A u64 is four   *)
(* 16-bit limbs, least significant first, so that the arithmetic keeps its *)
(* 64-bit width.                                                           *)
(***************************************************************************)
LimbBase == Pow2(16)
Limbs == 1 .. 4

\* 0xFFFF_8000_0000_0000
KERNEL_VIRTUAL_BASE == <<0, 0, 32768, 65535>>
U64Zero == <<0, 0, 0, 0>>

\* a + b in 64 bits: the wrapped sum and the carry out of bit 63
U64Add(a, b) ==
    LET RECURSIVE carry(_)
        carry(i) == IF i = 0 THEN 0 ELSE (a[i] + b[i] + carry(i - 1)) \div LimbBase
    IN  [val |-> [i \in Limbs |-> (a[i] + b[i] + carry(i - 1)) % LimbBase],
         carry |-> carry(4)]

\* a - b in 64 bits: the wrapped difference and the borrow out of bit 63
U64Sub(a, b) ==
    LET RECURSIVE borrow(_)
        borrow(i) == IF i = 0 THEN 0
                     ELSE IF a[i] - b[i] - borrow(i - 1) < 0 THEN 1 ELSE 0
    IN  [val |-> [i \in Limbs |-> (a[i] - b[i] - borrow(i - 1) + LimbBase) % LimbBase],
         borrow |-> borrow(4)]

U64Lt(a, b) == U64Sub(a, b).borrow = 1

Ok(v) == [tag |-> "Ok", val |-> v, err |-> "none"]
Err(e) == [tag |-> "Err", val |-> U64Zero, err |-> e]
Panicked == [tag |-> "Panic", val |-> U64Zero, err |-> "none"]
NotCalled == [tag |-> "NotCalled", val |-> U64Zero, err |-> "none"]

\* phys_addr + KERNEL_VIRTUAL_BASE is a plain u64 addition: when it overflows, a
\* build with overflow checks panics and a build without them wraps.  The set
\* of results the builds can produce.
phys_to_virt(phys_addr) ==
    IF phys_addr = U64Zero THEN {Err("InvalidAddress")}
    ELSE LET sum == U64Add(phys_addr, KERNEL_VIRTUAL_BASE)
         IN  IF sum.carry = 0 THEN {Ok(sum.val)} ELSE {Panicked, Ok(sum.val)}

virt_to_phys(virt_addr) ==
    IF U64Lt(virt_addr, KERNEL_VIRTUAL_BASE) THEN Err("InvalidAddress")
    ELSE LET d == U64Sub(virt_addr, KERNEL_VIRTUAL_BASE)
         IN  IF d.borrow = 0 THEN Ok(d.val) ELSE Err("AddressConversionFailed")

\* limb values that put an address on either side of every boundary
LimbValues == {0, 1, 32767, 32768, 65535}
Addresses == [Limbs -> LimbValues]

NoConv == [fn |-> "none", arg |-> U64Zero, virt |-> NotCalled, phys |-> NotCalled]

AddrIdle == conv = NoConv

\* a caller converts p to a virtual address and, when that succeeded, back
RoundTrip(p) ==
    /\ \E v \in phys_to_virt(p) :
          conv' = [fn |-> "round_trip", arg |-> p, virt |-> v,
                   phys |-> IF v.tag = "Ok" THEN virt_to_phys(v.val) ELSE NotCalled]
    /\ UNCHANGED outsideAddr

VirtToPhys(v) ==
    /\ conv' = [fn |-> "virt_to_phys", arg |-> v, virt |-> NotCalled,
                phys |-> virt_to_phys(v)]
    /\ UNCHANGED outsideAddr

AddrNext ==
    \/ \E p \in Addresses : RoundTrip(p)
    \/ \E v \in Addresses : VirtToPhys(v)

HeapIdle ==
    /\ heap_cfg = [start |-> 0, size |-> 0]
    /\ heap_inited = FALSE
    /\ slab = EmptySlab
    /\ buddy = EmptyBuddy
    /\ region_start = 0
    /\ region_size = 0
    /\ live = {}
    /\ cap0 = <<0, 0>>
    /\ last_freed = [c \in Classes |-> NULL]
    /\ op = NoOp

(***************************************************************************)
(* kernel/src/paging.rs: the page tables.  A table is the function of the  *)
(* entries written since its last clear(); every other entry is 0.         *)
(***************************************************************************)
PAGE_TABLE_ENTRY_COUNT == 512
PAGE_SIZE == 4096
MAX_SUPPORTED_MEMORY_GB == 8
PML4_KERNEL_INDEX == 256
KERNEL_STACK_SIZE == 65536
PT_COUNT == MAX_SUPPORTED_MEMORY_GB * 512
PAGE_TABLE_COVERAGE == PAGE_TABLE_ENTRY_COUNT * PAGE_SIZE
GiB == Pow2(30)

EFI_CONVENTIONAL_MEMORY == 7
EFI_MEMORY_MAPPED_IO == 11
EFI_MEMORY_MAPPED_IO_PORT_SPACE == 12

ZeroEntry == [addr |-> 0, flags |-> {}]
EmptyTable == << >>

\* PageTable::entry(index), read
EntryAt(t, k) == IF k \in DOMAIN t THEN t[k] ELSE ZeroEntry

\* PageTableEntry::set(addr, flags): the address masked to its page, the flags replaced
SetEntry(t, k, addr, flags) ==
    LET e == [addr |-> (addr \div PAGE_SIZE) * PAGE_SIZE, flags |-> flags]
    IN  [x \in (DOMAIN t) \cup {k} |-> IF x = k THEN e ELSE t[x]]

is_present(e) == "Present" \in e.flags
is_huge_page(e) == "HugePage" \in e.flags

\* a u64 below 2^31 as four limbs, and back
U64FromNat(n) == <<n % LimbBase, (n \div LimbBase) % LimbBase, 0, 0>>
U64ToNat(v) == v[1] + v[2] * LimbBase

\* addr_of!(symbol): the image is linked at KERNEL_VIRTUAL_BASE + its load address
SymbolVirt(phys) == U64Add(U64FromNat(phys), KERNEL_VIRTUAL_BASE).val

\* the insertion sort of extract_mmio_regions, element i sinking from position j
RECURSIVE InsertSorted(_, _, _)
InsertSorted(a, key, j) ==
    IF j > 1 /\ a[j - 1].start > key.start
    THEN InsertSorted([a EXCEPT ![j] = a[j - 1]], key, j - 1)
    ELSE [a EXCEPT ![j] = key]

RECURSIVE InsertionSort(_, _)
InsertionSort(a, i) ==
    IF i > Len(a) THEN a ELSE InsertionSort(InsertSorted(a, a[i], i), i + 1)

extract_mmio_regions(memory_regions) ==
    LET mmio == SelectSeq(memory_regions,
                    LAMBDA r : r.type = EFI_MEMORY_MAPPED_IO
                               \/ r.type = EFI_MEMORY_MAPPED_IO_PORT_SPACE)
        kept == SubSeq(mmio, 1, Min(Len(mmio), 64))
        ranges == [i \in 1 .. Len(kept) |->
                      [start |-> kept[i].start, end |-> kept[i].start + kept[i].size]]
    IN  InsertionSort(ranges, 2)

\* slice::partition_point: the binary search for the first element that fails pred
RECURSIVE PartitionPoint(_, _, _, _)
PartitionPoint(ranges, phys_addr, lo, hi) ==
    IF lo >= hi THEN lo
    ELSE LET mid == lo + (hi - lo) \div 2
         IN  IF ranges[mid + 1].start <= phys_addr
             THEN PartitionPoint(ranges, phys_addr, mid + 1, hi)
             ELSE PartitionPoint(ranges, phys_addr, lo, mid)

is_mmio_region_binary(phys_addr, mmio_ranges) ==
    IF Len(mmio_ranges) = 0 THEN FALSE
    ELSE LET idx == PartitionPoint(mmio_ranges, phys_addr, 0, Len(mmio_ranges))
         IN  IF idx = 0 THEN FALSE ELSE phys_addr < mmio_ranges[idx].end

\* the statics' physical addresses: &KERNEL_PDP_HIGH, &KERNEL_PD_HIGH[i], ...
TableAddr(table, i) == [table |-> table, index |-> i]

\* (start..end).step_by(PAGE_SIZE)
StepByPage(start, end) ==
    {start + i * PAGE_SIZE : i \in 0 .. ((Max(end - start, 0) + PAGE_SIZE - 1) \div PAGE_SIZE) - 1}

\* one section loop of init: every stepped address sets the entry of its page
MapSection(t, start, end, flags) ==
    LET phys_of == [k \in {<<(ph \div PAGE_SIZE) \div PAGE_TABLE_ENTRY_COUNT,
                             (ph \div PAGE_SIZE) % PAGE_TABLE_ENTRY_COUNT>> :
                           ph \in StepByPage(start, end)} |->
                       CHOOSE ph \in StepByPage(start, end) :
                           k = <<(ph \div PAGE_SIZE) \div PAGE_TABLE_ENTRY_COUNT,
                                 (ph \div PAGE_SIZE) % PAGE_TABLE_ENTRY_COUNT>>]
    IN  [x \in (DOMAIN t) \cup (DOMAIN phys_of) |->
            IF x \in DOMAIN phys_of
            THEN [addr |-> (phys_of[x] \div PAGE_SIZE) * PAGE_SIZE, flags |-> flags]
            ELSE t[x]]

text_flags == {"Present"}
rodata_flags == {"Present", "NoExecute"}
data_flags_Executable == {"Present", "Writable"}
data_flags == {"Present", "Writable", "NoExecute"}

\* the kernel section block of init
MapKernelSections(t, k) ==
    LET t1 == MapSection(t, k.text_start, k.text_end, text_flags)
        t2 == MapSection(t1, k.rodata_start, k.rodata_end, rodata_flags)
    IN  MapSection(t2, k.data_start, k.bss_end, data_flags)

\* the direct-map loop of init without the MMIO test
DirectMap_MapsMmio(actual_max, required_pt_count, k, mmio_ranges) ==
    LET mapped == {key \in (0 .. required_pt_count - 1) \X (0 .. PAGE_TABLE_ENTRY_COUNT - 1) :
                      LET physical_addr == (key[1] * PAGE_TABLE_ENTRY_COUNT + key[2]) * PAGE_SIZE
                      IN  /\ physical_addr < actual_max
                          /\ ~(physical_addr >= k.text_start /\ physical_addr < k.bss_end)}
    IN  [key \in mapped |->
            [addr |-> (key[1] * PAGE_TABLE_ENTRY_COUNT + key[2]) * PAGE_SIZE,
             flags |-> {"Present", "Writable"}]]

\* the direct-map loop of init: conventional pages below actual_max
DirectMap(actual_max, required_pt_count, k, mmio_ranges) ==
    LET mapped == {key \in (0 .. required_pt_count - 1) \X (0 .. PAGE_TABLE_ENTRY_COUNT - 1) :
                      LET physical_addr == (key[1] * PAGE_TABLE_ENTRY_COUNT + key[2]) * PAGE_SIZE
                      IN  /\ physical_addr < actual_max
                          /\ ~(physical_addr >= k.text_start /\ physical_addr < k.bss_end)
                          /\ ~is_mmio_region_binary(physical_addr, mmio_ranges)}
    IN  [key \in mapped |->
            [addr |-> (key[1] * PAGE_TABLE_ENTRY_COUNT + key[2]) * PAGE_SIZE,
             flags |-> {"Present", "Writable"}]]

\* the PML4 entries init links to the PDP: with the low half kept, and as coded
Pml4Linked_WithIdentity == {0, PML4_KERNEL_INDEX}
Pml4Linked == {PML4_KERNEL_INDEX}

\* paging::init: the tables it leaves and its result
paging_init(b) ==
    LET actual_max == IF b.max_physical_address \div GiB >= MAX_SUPPORTED_MEMORY_GB
                      THEN MAX_SUPPORTED_MEMORY_GB * GiB
                      ELSE b.max_physical_address
        required_pt_count == (actual_max + PAGE_TABLE_COVERAGE - 1) \div PAGE_TABLE_COVERAGE
        required_pd_count == (required_pt_count + 511) \div 512
        flags == {"Present", "Writable"}
        pml4_1 == [i \in Pml4Linked |->
                      [addr |-> TableAddr("PDP_HIGH", 0), flags |-> flags]]
        pdp_1 == [i \in 0 .. required_pd_count - 1 |->
                     [addr |-> TableAddr("PD_HIGH", i), flags |-> flags]]
        pd_1 == [key \in {<<pt_idx \div PAGE_TABLE_ENTRY_COUNT, pt_idx % PAGE_TABLE_ENTRY_COUNT>> :
                            pt_idx \in 0 .. required_pt_count - 1} |->
                    [addr |-> TableAddr("PT_HIGH", key[1] * PAGE_TABLE_ENTRY_COUNT + key[2]),
                     flags |-> flags]]
        sym == [n \in DOMAIN b.kernel |-> virt_to_phys(SymbolVirt(b.kernel[n]))]
        k == [n \in DOMAIN b.kernel |-> U64ToNat(sym[n].val)]
        mmio_ranges == extract_mmio_regions(b.memory_map)
        pt_1 == DirectMap(actual_max, required_pt_count, k, mmio_ranges)
        stack_virt_addr == SymbolVirt(b.kernel.stack)
        guard_sub == U64Sub(stack_virt_addr, U64FromNat(PAGE_SIZE))
        guard_phys == virt_to_phys(guard_sub.val)
        guard_page_phys_addr == U64ToNat(guard_phys.val)
        page_num == guard_page_phys_addr \div PAGE_SIZE
        pt_array_idx == page_num \div PAGE_TABLE_ENTRY_COUNT
        page_idx_in_pt == page_num % PAGE_TABLE_ENTRY_COUNT
        pt_2 == SetEntry(pt_1, <<pt_array_idx, page_idx_in_pt>>, guard_page_phys_addr, {})
        pt_3 == MapKernelSections(pt_2, k)
        out(res, t, c) == [res |-> res, pml4 |-> pml4_1, pdp |-> pdp_1, pd |-> pd_1,
                           pt |-> t, cr3 |-> c]
    IN  IF \E n \in {"text_start", "bss_end"} : sym[n].tag = "Err"
        THEN out("AddressConversionFailed", EmptyTable, "boot")
        ELSE IF guard_sub.borrow = 1 THEN out("GuardPageSetupFailed", pt_1, "boot")
        ELSE IF guard_phys.tag = "Err" THEN out("AddressConversionFailed", pt_1, "boot")
        ELSE IF pt_array_idx >= PT_COUNT THEN out("GuardPageSetupFailed", pt_1, "boot")
        ELSE IF \E n \in DOMAIN sym : sym[n].tag = "Err"
        THEN out("AddressConversionFailed", pt_2, "boot")
        ELSE out("Ok", pt_3, TableAddr("PML4", 0))

\* the load addresses the linker can give the image: every section starts on a
\* page, ends anywhere, and .bss holds the 64 KiB KERNEL_STACK (16-byte aligned)
KernelLayouts ==
    {[text_start |-> 16 * PAGE_SIZE,
      text_end |-> 16 * PAGE_SIZE + text_len,
      rodata_start |-> align_up(16 * PAGE_SIZE + text_len, PAGE_SIZE),
      rodata_end |-> align_up(16 * PAGE_SIZE + text_len, PAGE_SIZE) + rodata_len,
      data_start |-> align_up(align_up(16 * PAGE_SIZE + text_len, PAGE_SIZE) + rodata_len,
                              PAGE_SIZE),
      stack |-> align_up(align_up(16 * PAGE_SIZE + text_len, PAGE_SIZE) + rodata_len,
                         PAGE_SIZE) + stack_off,
      bss_end |-> align_up(align_up(align_up(16 * PAGE_SIZE + text_len, PAGE_SIZE) + rodata_len,
                                    PAGE_SIZE) + stack_off + KERNEL_STACK_SIZE, PAGE_SIZE)
                  + bss_tail] :
        text_len \in {PAGE_SIZE, PAGE_SIZE + 2048},
        rodata_len \in {2048, PAGE_SIZE},
        stack_off \in {0, 16, PAGE_SIZE, 2 * PAGE_SIZE},
        bss_tail \in {1024, PAGE_SIZE}}

\* UEFI memory maps: conventional memory holding the image, MMIO in any order
MemoryMaps ==
    {<<[start |-> 0, size |-> 48 * PAGE_SIZE, type |-> EFI_CONVENTIONAL_MEMORY]>>,
     <<[start |-> 0, size |-> 40 * PAGE_SIZE, type |-> EFI_CONVENTIONAL_MEMORY],
       [start |-> 44 * PAGE_SIZE, size |-> 2 * PAGE_SIZE, type |-> EFI_MEMORY_MAPPED_IO],
       [start |-> 40 * PAGE_SIZE, size |-> PAGE_SIZE,
        type |-> EFI_MEMORY_MAPPED_IO_PORT_SPACE]>>,
     <<[start |-> 46 * PAGE_SIZE, size |-> PAGE_SIZE, type |-> EFI_MEMORY_MAPPED_IO],
       [start |-> 0, size |-> 40 * PAGE_SIZE, type |-> EFI_CONVENTIONAL_MEMORY],
       [start |-> 512 * PAGE_SIZE, size |-> PAGE_SIZE, type |-> EFI_MEMORY_MAPPED_IO]>>}

MaxPhysicalAddresses == {48 * PAGE_SIZE, 48 * PAGE_SIZE - 2048, 513 * PAGE_SIZE}

BootInfos ==
    [max_physical_address : MaxPhysicalAddresses, memory_map : MemoryMaps,
     kernel : KernelLayouts]

NoPagingOp == [kind |-> "none", res |-> "none", n |-> 0, phys |-> 0, size |-> 0,
               flags |-> {}, virt |-> NotCalled]

\* before init: the statics are zeroed and CR3 holds the boot loader's tables
PagingBoot(b) ==
    /\ boot = b
    /\ pml4 = EmptyTable /\ pdp = EmptyTable /\ pd = EmptyTable /\ pt = EmptyTable
    /\ cr3 = "boot"
    /\ pg_op = NoPagingOp

PagingIdle == PagingBoot(CHOOSE b \in BootInfos : TRUE)

\* kernel_main calls paging::init once
PagingInit ==
    /\ pg_op.kind = "none"
    /\ LET r == paging_init(boot)
       IN  /\ pml4' = r.pml4 /\ pdp' = r.pdp /\ pd' = r.pd /\ pt' = r.pt
           /\ cr3' = r.cr3
           /\ pg_op' = [NoPagingOp EXCEPT !.kind = "init", !.res = r.res]
    /\ UNCHANGED boot
    /\ UNCHANGED outsidePaging

uc_flags == {"Present", "Writable", "CacheDisable"}

\* the page loop of map_mmio: page i of page_count, the table so far
RECURSIVE MapMmioLoop(_, _, _, _)
MapMmioLoop(t, phys_addr, i, page_count) ==
    IF i >= page_count THEN [pt |-> t, res |-> "Ok"]
    ELSE LET addr == phys_addr + i * PAGE_SIZE
             page_num == addr \div PAGE_SIZE
             pt_array_idx == page_num \div PAGE_TABLE_ENTRY_COUNT
             page_idx_in_pt == page_num % PAGE_TABLE_ENTRY_COUNT
         IN  IF pt_array_idx >= PT_COUNT THEN [pt |-> t, res |-> "PageTableInitFailed"]
             ELSE MapMmioLoop(SetEntry(t, <<pt_array_idx, page_idx_in_pt>>, addr, uc_flags),
                              phys_addr, i + 1, page_count)

\* map_mmio with the alignment test moved behind the page loop
map_mmio_CheckAfterWrite(t, interrupts_enabled, phys_addr, size) ==
    IF interrupts_enabled THEN [pt |-> t, res |-> "Panic", virt |-> {NotCalled}]
    ELSE LET page_count == (size + PAGE_SIZE - 1) \div PAGE_SIZE
             r == MapMmioLoop(t, phys_addr, 0, page_count)
         IN  IF phys_addr % PAGE_SIZE # 0
             THEN [pt |-> r.pt, res |-> "InvalidAddress", virt |-> {NotCalled}]
             ELSE IF r.res # "Ok" THEN [pt |-> r.pt, res |-> r.res, virt |-> {NotCalled}]
             ELSE [pt |-> r.pt, res |-> "Ok", virt |-> phys_to_virt(U64FromNat(phys_addr))]

\* map_mmio(phys_addr, size): the PT array it leaves, its result, and for Ok the
\* results phys_to_virt can give
map_mmio(t, interrupts_enabled, phys_addr, size) ==
    IF interrupts_enabled THEN [pt |-> t, res |-> "Panic", virt |-> {NotCalled}]
    ELSE IF phys_addr % PAGE_SIZE # 0
    THEN [pt |-> t, res |-> "InvalidAddress", virt |-> {NotCalled}]
    ELSE LET page_count == (size + PAGE_SIZE - 1) \div PAGE_SIZE
             r == MapMmioLoop(t, phys_addr, 0, page_count)
         IN  IF r.res # "Ok" THEN [pt |-> r.pt, res |-> r.res, virt |-> {NotCalled}]
             ELSE [pt |-> r.pt, res |-> "Ok", virt |-> phys_to_virt(U64FromNat(phys_addr))]

\* physical addresses the drivers map: an MMIO range of the memory maps, the
\* first page of the second page table, address 0 and misaligned ones
MmioAddresses == {44 * PAGE_SIZE, 512 * PAGE_SIZE, 0, 44 * PAGE_SIZE + 8,
                  40 * PAGE_SIZE + 2048}
MmioSizes == {PAGE_SIZE, PAGE_SIZE + 1}

\* what a call returns when its last step is phys_to_virt(..)? giving v
ResultOf(v) == IF v.tag = "Ok" THEN "Ok" ELSE IF v.tag = "Err" THEN v.err ELSE "Panic"

\* the record of a call: its kind, arguments and result
PagingCall(kind, res, phys, size, flags, v) ==
    [kind |-> kind, res |-> IF res = "Ok" THEN ResultOf(v) ELSE res, n |-> pg_op.n + 1,
     phys |-> phys, size |-> size, flags |-> flags, virt |-> v]

\* init has succeeded and the kernel goes on to map device memory
PagingReady == pg_op.kind # "none" /\ cr3 = TableAddr("PML4", 0) /\ pg_op.n < MaxPagingCalls

\* a driver calls map_mmio(phys_addr, size)
MapMmio(phys_addr, size) ==
    /\ PagingReady
    /\ LET r == map_mmio(pt, rflags_if, phys_addr, size)
       IN  /\ pt' = r.pt
           /\ \E v \in r.virt :
                  pg_op' = PagingCall("map_mmio", r.res, phys_addr, size, uc_flags, v)
    /\ UNCHANGED <<boot, pml4, pdp, pd, cr3>>
    /\ UNCHANGED outsidePaging

HUGE_PAGE_SIZE_2MB == 2097152
HUGE_PAGE_SIZE_1GB == 1073741824

is_2mb_aligned(addr) == addr % HUGE_PAGE_SIZE_2MB = 0
is_1gb_aligned(addr) == addr % HUGE_PAGE_SIZE_1GB = 0

\* PageTable::clear on one table of an array: every entry of table idx is zero
ClearTable(t, idx) == [k \in {x \in DOMAIN t : x[1] # idx} |-> t[k]]

\* the first failure among the results of phys_to_virt, "Ok" when there is none
VirtResult(vs) == IF \A v \in vs : v.tag = "Ok" THEN "Ok"
                  ELSE ResultOf(CHOOSE v \in vs : v.tag # "Ok")

clear_4kb_mappings_for_huge_page(pt_t, pd_t, phys_addr) ==
    LET pt_array_idx == phys_addr \div PAGE_TABLE_COVERAGE
        pd_global_idx == phys_addr \div HUGE_PAGE_SIZE_2MB
        pd_array_idx == pd_global_idx \div PAGE_TABLE_ENTRY_COUNT
        pd_entry_idx == pd_global_idx % PAGE_TABLE_ENTRY_COUNT
    IN  IF ~is_2mb_aligned(phys_addr) THEN [pt |-> pt_t, pd |-> pd_t, res |-> "InvalidAddress"]
        ELSE IF pt_array_idx >= PT_COUNT
        THEN [pt |-> pt_t, pd |-> pd_t, res |-> "AddressOutOfRange"]
        ELSE [pt |-> ClearTable(pt_t, pt_array_idx),
              pd |-> SetEntry(pd_t, <<pd_array_idx, pd_entry_idx>>, 0, {}),
              res |-> "Ok"]

\* map_huge_2mb(phys_addr, additional_flags): the PD array it leaves, its result
\* before the address conversion, and what phys_to_virt can give
map_huge_2mb(pd_t, interrupts_enabled, phys_addr, additional_flags) ==
    LET pd_global_idx == phys_addr \div HUGE_PAGE_SIZE_2MB
        pd_array_idx == pd_global_idx \div PAGE_TABLE_ENTRY_COUNT
        pd_entry_idx == pd_global_idx % PAGE_TABLE_ENTRY_COUNT
        huge_flags == {"Present", "Writable", "HugePage"} \cup additional_flags
        existing_entry == EntryAt(pd_t, <<pd_array_idx, pd_entry_idx>>)
        fail(e) == [pd |-> pd_t, res |-> e, virt |-> {NotCalled}]
    IN  IF interrupts_enabled THEN fail("Panic")
        ELSE IF ~is_2mb_aligned(phys_addr) THEN fail("InvalidAddress")
        ELSE IF pd_array_idx >= MAX_SUPPORTED_MEMORY_GB THEN fail("AddressOutOfRange")
        ELSE IF is_present(existing_entry) /\ ~is_huge_page(existing_entry)
        THEN fail("ExistingMappingConflict")
        ELSE [pd |-> SetEntry(pd_t, <<pd_array_idx, pd_entry_idx>>, phys_addr, huge_flags),
              res |-> "Ok", virt |-> phys_to_virt(U64FromNat(phys_addr))]

\* map_huge_1gb(phys_addr, additional_flags) on a CPU with or without 1 GiB pages
map_huge_1gb(pdp_t, interrupts_enabled, supports_1gb_pages, phys_addr, additional_flags) ==
    LET pdp_entry_idx == phys_addr \div HUGE_PAGE_SIZE_1GB
        huge_flags == {"Present", "Writable", "HugePage"} \cup additional_flags
        existing_entry == EntryAt(pdp_t, pdp_entry_idx)
        fail(e) == [pdp |-> pdp_t, res |-> e, virt |-> {NotCalled}]
    IN  IF interrupts_enabled THEN fail("Panic")
        ELSE IF ~is_1gb_aligned(phys_addr) THEN fail("InvalidAddress")
        ELSE IF ~supports_1gb_pages THEN fail("FeatureNotSupported")
        ELSE IF pdp_entry_idx >= MAX_SUPPORTED_MEMORY_GB THEN fail("AddressOutOfRange")
        ELSE IF is_present(existing_entry) /\ ~is_huge_page(existing_entry)
        THEN fail("ExistingMappingConflict")
        ELSE [pdp |-> SetEntry(pdp_t, pdp_entry_idx, phys_addr, huge_flags),
              res |-> "Ok", virt |-> phys_to_virt(U64FromNat(phys_addr))]

\* the loop of map_framebuffer_huge: huge page i of huge_page_count
RECURSIVE FramebufferLoop(_, _, _, _, _)
FramebufferLoop(pt_t, pd_t, fb_base, i, huge_page_count) ==
    IF i >= huge_page_count THEN [pt |-> pt_t, pd |-> pd_t, res |-> "Ok"]
    ELSE LET page_addr == fb_base + i * HUGE_PAGE_SIZE_2MB
             c == clear_4kb_mappings_for_huge_page(pt_t, pd_t, page_addr)
             m == map_huge_2mb(c.pd, FALSE, page_addr, {"CacheDisable"})
         IN  IF c.res # "Ok" THEN c
             ELSE IF m.res # "Ok" THEN [pt |-> c.pt, pd |-> m.pd, res |-> m.res]
             ELSE IF VirtResult(m.virt) # "Ok"
             THEN [pt |-> c.pt, pd |-> m.pd, res |-> VirtResult(m.virt)]
             ELSE FramebufferLoop(c.pt, m.pd, fb_base, i + 1, huge_page_count)

map_framebuffer_huge(pt_t, pd_t, interrupts_enabled, fb_base, fb_size) ==
    IF interrupts_enabled
    THEN [pt |-> pt_t, pd |-> pd_t, res |-> "Panic", virt |-> {NotCalled}]
    ELSE IF ~is_2mb_aligned(fb_base)
    THEN [pt |-> pt_t, pd |-> pd_t, res |-> "Ok", virt |-> phys_to_virt(U64FromNat(fb_base))]
    ELSE LET huge_page_count == (fb_size + HUGE_PAGE_SIZE_2MB - 1) \div HUGE_PAGE_SIZE_2MB
             r == FramebufferLoop(pt_t, pd_t, fb_base, 0, huge_page_count)
         IN  IF r.res # "Ok" THEN [pt |-> r.pt, pd |-> r.pd, res |-> r.res, virt |-> {NotCalled}]
             ELSE [pt |-> r.pt, pd |-> r.pd, res |-> "Ok",
                   virt |-> phys_to_virt(U64FromNat(fb_base))]

\* huge page addresses: the second and third 2 MiB page, the second GiB, the
\* first GiB and a misaligned one
HugeAddresses2mb == {HUGE_PAGE_SIZE_2MB, 2 * HUGE_PAGE_SIZE_2MB, HUGE_PAGE_SIZE_2MB + PAGE_SIZE}
HugeAddresses1gb == {HUGE_PAGE_SIZE_1GB, 0, HUGE_PAGE_SIZE_2MB}
Framebuffers == {[base |-> HUGE_PAGE_SIZE_2MB, size |-> HUGE_PAGE_SIZE_2MB + 1],
                 [base |-> 2 * HUGE_PAGE_SIZE_2MB, size |-> HUGE_PAGE_SIZE_2MB \div 2],
                 [base |-> 44 * PAGE_SIZE, size |-> 2 * PAGE_SIZE]}

MapHuge2mb(phys_addr, additional_flags) ==
    /\ PagingReady
    /\ LET r == map_huge_2mb(pd, rflags_if, phys_addr, additional_flags)
       IN  /\ pd' = r.pd
           /\ \E v \in r.virt :
                  pg_op' = PagingCall("map_huge_2mb", r.res, phys_addr, HUGE_PAGE_SIZE_2MB,
                                      additional_flags, v)
    /\ UNCHANGED <<boot, pml4, pdp, pt, cr3>>
    /\ UNCHANGED outsidePaging

MapHuge1gb(supports_1gb_pages, phys_addr, additional_flags) ==
    /\ PagingReady
    /\ LET r == map_huge_1gb(pdp, rflags_if, supports_1gb_pages, phys_addr, additional_flags)
       IN  /\ pdp' = r.pdp
           /\ \E v \in r.virt :
                  pg_op' = PagingCall("map_huge_1gb", r.res, phys_addr, HUGE_PAGE_SIZE_1GB,
                                      additional_flags, v)
    /\ UNCHANGED <<boot, pml4, pd, pt, cr3>>
    /\ UNCHANGED outsidePaging

MapFramebufferHuge(fb) ==
    /\ PagingReady
    /\ LET r == map_framebuffer_huge(pt, pd, rflags_if, fb.base, fb.size)
       IN  /\ pt' = r.pt
           /\ pd' = r.pd
           /\ \E v \in r.virt :
                  pg_op' = PagingCall("map_framebuffer_huge", r.res, fb.base, fb.size,
                                      {"CacheDisable"}, v)
    /\ UNCHANGED <<boot, pml4, pdp, cr3>>
    /\ UNCHANGED outsidePaging

PagingNext ==
    \/ PagingInit
    \/ \E phys_addr \in MmioAddresses, size \in MmioSizes : MapMmio(phys_addr, size)
    \/ \E phys_addr \in HugeAddresses2mb : MapHuge2mb(phys_addr, {"CacheDisable"})
    \/ \E phys_addr \in HugeAddresses1gb, s \in BOOLEAN : MapHuge1gb(s, phys_addr, {})
    \/ \E fb \in Framebuffers : MapFramebufferHuge(fb)

(***************************************************************************)
(* One CPU, two tasks and an interrupt handler, calling the allocator and  *)
(* the wait queue step by step.  A task is pre-empted, and the handler     *)
(* entered, only while RFLAGS.IF is set.                                   *)
(***************************************************************************)
Tasks == {"task1", "task2"}
Contexts == Tasks \cup {"irq"}
NoTask == "none"

\* Layout of the first buffer of VecDeque<TaskId>: four 8-byte ids
WaitersLayout == [size |-> 32, align |-> 8]

\* layouts the contexts ask for: one served by a slab class, one whose class
\* has no block and falls back to the buddy allocator
IrqLayouts == {[size |-> 12, align |-> 1], [size |-> 4096, align |-> 4096]}

NoBlock == [ptr |-> NULL, size |-> 0, align |-> 1]

IdleContext == [pc |-> "idle", ret |-> "idle", saved |-> <<>>, lay |-> NoBlock,
                node |-> NULL, nxt |-> <<>>, tid |-> NoTask, all |-> FALSE, own |-> {},
                spin |-> FALSE]

NoWiOp == [kind |-> "none", who |-> NoTask, entry_if |-> FALSE]

IrqIdle ==
    /\ rflags_if = FALSE
    /\ cur = "boot"
    /\ irq_ret = "none"
    /\ cx = [c \in Contexts |-> IF c = "irq" THEN [IdleContext EXCEPT !.pc = "off"]
                                ELSE IdleContext]
    /\ waiters = <<>>
    /\ wq_buf = NULL
    /\ blocked = {}
    /\ wi_op = NoWiOp

\* pushfq; pop rflags; cli -- the frame keeps the flag it found
SaveAndDisable(c, fn) == <<[rflags |-> rflags_if, fn |-> fn]>> \o cx[c].saved

\* wait_queue.rs without_interrupts, after f: sti only when the saved flag was set
without_interrupts_restore_AlwaysSti(rflags, now) == TRUE
without_interrupts_restore(rflags, now) == IF rflags THEN TRUE ELSE now

\* crate::io::without_interrupts, after f: the previous state is restored
io_without_interrupts_restore(rflags, now) == IF rflags THEN TRUE ELSE now

\* the flag after the innermost frame of c has been left
IoRestored(c) == io_without_interrupts_restore(Head(cx[c].saved).rflags, rflags_if)

\* c runs and stands at pc
At(c, pc) == heap_inited /\ cur = c /\ cx[c].pc = pc

ClassOf(l) == size_to_class(Max(l.size, l.align))

\* the part of cx and of RFLAGS that entering crate::io::without_interrupts changes
IoEntered(c, next_pc) == [cx EXCEPT ![c].saved = SaveAndDisable(c, "io"), ![c].pc = next_pc]

\* GlobalAlloc::alloc up to the body of its first critical section
AllocBodyPc(l) == IF ClassOf(l) # NoClass THEN "slab_alloc_read" ELSE "buddy_alloc_body"

\* GlobalAlloc::dealloc up to the body of its critical section
DeallocBodyPc(b) ==
    IF b.ptr >= region_start THEN "buddy_free_body"
    ELSE IF ClassOf(b) # NoClass THEN "slab_free_link" ELSE "dealloc_return"

\* a context calls alloc(layout): the size class is computed and
\* SlabCache::allocate (or BuddyAllocator::allocate) enters without_interrupts
CallAlloc_Unmasked(c, l) ==
    /\ At(c, "idle")
    /\ Cardinality(cx[c].own) < MaxOwned
    /\ cx' = [IoEntered(c, AllocBodyPc(l)) EXCEPT
                 ![c].lay = [NoBlock EXCEPT !.size = l.size, !.align = l.align],
                 ![c].ret = "idle"]
    /\ wi_op' = NoWiOp
    /\ UNCHANGED <<rflags_if, slab, buddy, cur, irq_ret, waiters, wq_buf, blocked>>
    /\ UNCHANGED outsideIrq

CallAlloc(c, l) ==
    /\ At(c, "idle")
    /\ Cardinality(cx[c].own) < MaxOwned
    /\ cx' = [IoEntered(c, AllocBodyPc(l)) EXCEPT
                 ![c].lay = [NoBlock EXCEPT !.size = l.size, !.align = l.align],
                 ![c].ret = "idle"]
    /\ rflags_if' = FALSE
    /\ wi_op' = NoWiOp
    /\ UNCHANGED <<slab, buddy, cur, irq_ret, waiters, wq_buf, blocked>>
    /\ UNCHANGED outsideIrq

\* a context calls dealloc(ptr, layout) on a block it holds: the tier is chosen by
\* the address and its deallocate enters without_interrupts
CallDealloc(c, b) ==
    /\ At(c, "idle")
    /\ b \in cx[c].own
    /\ cx' = [IoEntered(c, DeallocBodyPc(b)) EXCEPT ![c].lay = b, ![c].own = @ \ {b}]
    /\ rflags_if' = FALSE
    /\ wi_op' = NoWiOp
    /\ UNCHANGED <<slab, buddy, cur, irq_ret, waiters, wq_buf, blocked>>
    /\ UNCHANGED outsideIrq

\* alloc returns ptr to its caller: a context's own call, or the growth of waiters
AfterAlloc(c, ptr) ==
    IF cx[c].ret = "idle"
    THEN [cxc |-> [cx[c] EXCEPT !.pc = "idle", !.node = NULL, !.nxt = <<>>,
                                !.lay = NoBlock,
                                !.own = IF ptr = NULL THEN @
                                        ELSE @ \cup {[cx[c].lay EXCEPT !.ptr = ptr]}],
          buf |-> wq_buf]
    ELSE [cxc |-> [cx[c] EXCEPT !.pc = IF ptr = NULL THEN "alloc_error" ELSE cx[c].ret,
                                !.ret = "idle", !.node = NULL, !.nxt = <<>>,
                                !.lay = NoBlock],
          buf |-> ptr]

\* let Some(node) = *free_list, and the read of (*node).next
SlabAllocRead(c) ==
    /\ At(c, "slab_alloc_read")
    /\ LET fl == slab[ClassOf(cx[c].lay)]
       IN  cx' = [cx EXCEPT ![c].node = IF fl = <<>> THEN NULL ELSE Head(fl),
                            ![c].nxt = IF fl = <<>> THEN <<>> ELSE Tail(fl),
                            ![c].pc = "slab_alloc_write"]
    /\ UNCHANGED <<slab, buddy, rflags_if, cur, irq_ret, waiters, wq_buf, blocked>>
    /\ wi_op' = NoWiOp
    /\ UNCHANGED outsideIrq

\* *free_list = (*node).next
SlabAllocWrite(c) ==
    /\ At(c, "slab_alloc_write")
    /\ slab' = IF cx[c].node = NULL THEN slab
               ELSE [slab EXCEPT ![ClassOf(cx[c].lay)] = cx[c].nxt]
    /\ cx' = [cx EXCEPT ![c].pc = "slab_alloc_exit"]
    /\ UNCHANGED <<buddy, rflags_if, cur, irq_ret, waiters, wq_buf, blocked>>
    /\ wi_op' = NoWiOp
    /\ UNCHANGED outsideIrq

\* without_interrupts returns; alloc returns the block, or goes on to the buddy allocator
SlabAllocExit(c) ==
    /\ At(c, "slab_alloc_exit")
    /\ rflags_if' = IoRestored(c)
    /\ LET left == [cx EXCEPT ![c].saved = Tail(@)]
           r == AfterAlloc(c, cx[c].node)
       IN  IF cx[c].node # NULL
           THEN /\ cx' = [left EXCEPT ![c] = [r.cxc EXCEPT !.saved = left[c].saved]]
                /\ wq_buf' = r.buf
           ELSE /\ cx' = [left EXCEPT ![c].pc = "buddy_alloc_enter", ![c].nxt = <<>>]
                /\ UNCHANGED wq_buf
    /\ UNCHANGED <<slab, buddy, cur, irq_ret, waiters, blocked>>
    /\ wi_op' = NoWiOp
    /\ UNCHANGED outsideIrq

\* BuddyAllocator::allocate enters without_interrupts
BuddyAllocEnter(c) ==
    /\ At(c, "buddy_alloc_enter")
    /\ cx' = IoEntered(c, "buddy_alloc_body")
    /\ rflags_if' = FALSE
    /\ wi_op' = NoWiOp
    /\ UNCHANGED <<slab, buddy, cur, irq_ret, waiters, wq_buf, blocked>>
    /\ UNCHANGED outsideIrq

\* the closure of BuddyAllocator::allocate
BuddyAllocBody(c) ==
    /\ At(c, "buddy_alloc_body")
    /\ LET r == BuddyAllocator_allocate(buddy, cx[c].lay.size, cx[c].lay.align)
       IN  /\ buddy' = r.free_lists
           /\ cx' = [cx EXCEPT ![c].node = r.ptr, ![c].pc = "buddy_alloc_exit"]
    /\ UNCHANGED <<slab, rflags_if, cur, irq_ret, waiters, wq_buf, blocked>>
    /\ wi_op' = NoWiOp
    /\ UNCHANGED outsideIrq

BuddyAllocExit(c) ==
    /\ At(c, "buddy_alloc_exit")
    /\ rflags_if' = IoRestored(c)
    /\ LET r == AfterAlloc(c, cx[c].node)
       IN  /\ cx' = [cx EXCEPT ![c] = [r.cxc EXCEPT !.saved = Tail(cx[c].saved)]]
           /\ wq_buf' = r.buf
    /\ UNCHANGED <<slab, buddy, cur, irq_ret, waiters, blocked>>
    /\ wi_op' = NoWiOp
    /\ UNCHANGED outsideIrq

\* (*node).next = *free_list
SlabFreeLink(c) ==
    /\ At(c, "slab_free_link")
    /\ cx' = [cx EXCEPT ![c].nxt = slab[ClassOf(cx[c].lay)], ![c].pc = "slab_free_write"]
    /\ UNCHANGED <<slab, buddy, rflags_if, cur, irq_ret, waiters, wq_buf, blocked>>
    /\ wi_op' = NoWiOp
    /\ UNCHANGED outsideIrq

\* *free_list = NonNull::new(node)
SlabFreeWrite(c) ==
    /\ At(c, "slab_free_write")
    /\ slab' = [slab EXCEPT ![ClassOf(cx[c].lay)] = <<cx[c].lay.ptr>> \o cx[c].nxt]
    /\ cx' = [cx EXCEPT ![c].pc = "slab_free_exit"]
    /\ UNCHANGED <<buddy, rflags_if, cur, irq_ret, waiters, wq_buf, blocked>>
    /\ wi_op' = NoWiOp
    /\ UNCHANGED outsideIrq

\* the closure of BuddyAllocator::deallocate
BuddyFreeBody(c) ==
    /\ At(c, "buddy_free_body")
    /\ buddy' = BuddyAllocator_deallocate(buddy, region_start, region_size,
                                          cx[c].lay.ptr, cx[c].lay.size, cx[c].lay.align)
    /\ cx' = [cx EXCEPT ![c].pc = "buddy_free_exit"]
    /\ UNCHANGED <<slab, rflags_if, cur, irq_ret, waiters, wq_buf, blocked>>
    /\ wi_op' = NoWiOp
    /\ UNCHANGED outsideIrq

\* without_interrupts returns from either deallocate, and dealloc returns
FreeExit(c) ==
    /\ heap_inited /\ cur = c /\ cx[c].pc \in {"slab_free_exit", "buddy_free_exit"}
    /\ rflags_if' = IoRestored(c)
    /\ cx' = [cx EXCEPT ![c].saved = Tail(@), ![c].pc = "idle", ![c].nxt = <<>>,
                        ![c].lay = NoBlock]
    /\ UNCHANGED <<slab, buddy, cur, irq_ret, waiters, wq_buf, blocked>>
    /\ wi_op' = NoWiOp
    /\ UNCHANGED outsideIrq

\* crate::task: the states of the tasks, by the set of the Blocked ones
block_current_task(b, c) == b \cup {c}
unblock_task(b, id) == b \ {id}

\* entry to wait_queue.rs without_interrupts
WqEnter_NoCli(c, next_pc) ==
    /\ cx' = [cx EXCEPT ![c].saved = SaveAndDisable(c, "wq"), ![c].pc = next_pc]
    /\ rflags_if' = rflags_if
    /\ wi_op' = [kind |-> "enter", who |-> c, entry_if |-> rflags_if]

WqEnter(c, next_pc) ==
    /\ cx' = [cx EXCEPT ![c].saved = SaveAndDisable(c, "wq"), ![c].pc = next_pc]
    /\ rflags_if' = FALSE
    /\ wi_op' = [kind |-> "enter", who |-> c, entry_if |-> rflags_if]

\* self.waiters.lock() returns only when no other context holds the spin lock:
\* until then the caller spins
WaitersLockFree(c) == \A d \in Contexts \ {c} : ~cx[d].spin

\* return from wait_queue.rs without_interrupts: the closure ends, which drops
\* the guard of self.waiters, and then the flag is restored
WqExit(c, next_pc) ==
    /\ rflags_if' = without_interrupts_restore(Head(cx[c].saved).rflags, rflags_if)
    /\ cx' = [cx EXCEPT ![c].saved = Tail(@), ![c].pc = next_pc, ![c].spin = FALSE]
    /\ wi_op' = [kind |-> "exit", who |-> c, entry_if |-> Head(cx[c].saved).rflags]

\* a task calls WaitQueue::wait, which enters without_interrupts
CallWait(c) ==
    /\ At(c, "idle") /\ c \in Tasks
    /\ WqEnter(c, "wq_wait_push")
    /\ UNCHANGED <<slab, buddy, cur, irq_ret, waiters, wq_buf, blocked>>
    /\ UNCHANGED outsideIrq

\* self.waiters.lock() and waiters.push_back(task_id): the first push allocates
\* the buffer, entering the allocator's critical section inside this one with
\* the lock held
WqWaitPush(c) ==
    /\ At(c, "wq_wait_push")
    /\ WaitersLockFree(c)
    /\ IF wq_buf = NULL
       THEN /\ cx' = [IoEntered(c, AllocBodyPc(WaitersLayout)) EXCEPT
                         ![c].lay = [NoBlock EXCEPT !.size = WaitersLayout.size,
                                                    !.align = WaitersLayout.align],
                         ![c].ret = "wq_wait_push", ![c].spin = TRUE]
            /\ rflags_if' = FALSE
            /\ UNCHANGED waiters
       ELSE /\ waiters' = Append(waiters, c)
            /\ cx' = [cx EXCEPT ![c].pc = "wq_wait_exit", ![c].spin = TRUE]
            /\ UNCHANGED rflags_if
    /\ wi_op' = NoWiOp
    /\ UNCHANGED <<slab, buddy, cur, irq_ret, wq_buf, blocked>>
    /\ UNCHANGED outsideIrq

WqWaitExit(c) ==
    /\ At(c, "wq_wait_exit")
    /\ WqExit(c, "wq_wait_block")
    /\ UNCHANGED <<slab, buddy, cur, irq_ret, waiters, wq_buf, blocked>>
    /\ UNCHANGED outsideIrq

\* crate::task::block_current_task: the task becomes Blocked and yields the CPU
WqWaitBlock(c) ==
    /\ At(c, "wq_wait_block")
    /\ blocked' = block_current_task(blocked, c)
    /\ cx' = [cx EXCEPT ![c].pc = "idle"]
    /\ IF Tasks \ blocked' = {} THEN cur' = "idle" ELSE cur' \in Tasks \ blocked'
    /\ rflags_if' = TRUE
    /\ wi_op' = NoWiOp
    /\ UNCHANGED <<slab, buddy, irq_ret, waiters, wq_buf>>
    /\ UNCHANGED outsideIrq

\* a context calls WaitQueue::wake_one (all = FALSE) or wake_all (all = TRUE); the
\* loop of wake_all comes back here
WqWakeEnter(c, all) ==
    /\ \/ At(c, "idle")
       \/ At(c, "wq_wake_again") /\ all
    /\ cx' = [cx EXCEPT ![c].saved = SaveAndDisable(c, "wq"), ![c].pc = "wq_wake_pop",
                        ![c].all = all]
    /\ rflags_if' = FALSE
    /\ wi_op' = [kind |-> "enter", who |-> c, entry_if |-> rflags_if]
    /\ UNCHANGED <<slab, buddy, cur, irq_ret, waiters, wq_buf, blocked>>
    /\ UNCHANGED outsideIrq

\* self.waiters.lock() and waiters.pop_front()
WqWakePop(c) ==
    /\ At(c, "wq_wake_pop")
    /\ WaitersLockFree(c)
    /\ cx' = [cx EXCEPT ![c].tid = IF waiters = <<>> THEN NoTask ELSE Head(waiters),
                        ![c].pc = "wq_wake_exit", ![c].spin = TRUE]
    /\ waiters' = IF waiters = <<>> THEN waiters ELSE Tail(waiters)
    /\ wi_op' = NoWiOp
    /\ UNCHANGED <<slab, buddy, rflags_if, cur, irq_ret, wq_buf, blocked>>
    /\ UNCHANGED outsideIrq

WqWakeExit(c) ==
    /\ At(c, "wq_wake_exit")
    /\ WqExit(c, "wq_wake_unblock")
    /\ UNCHANGED <<slab, buddy, cur, irq_ret, waiters, wq_buf, blocked>>
    /\ UNCHANGED outsideIrq

\* crate::task::unblock_task(id) after the lock is released; wake_all loops until None
WqWakeUnblock(c) ==
    /\ At(c, "wq_wake_unblock")
    /\ blocked' = unblock_task(blocked, cx[c].tid)
    /\ cx' = [cx EXCEPT ![c].tid = NoTask,
                        ![c].all = cx[c].tid # NoTask /\ cx[c].all,
                        ![c].pc = IF cx[c].tid # NoTask /\ cx[c].all
                                  THEN "wq_wake_again" ELSE "idle"]
    /\ wi_op' = NoWiOp
    /\ UNCHANGED <<slab, buddy, rflags_if, cur, irq_ret, waiters, wq_buf>>
    /\ UNCHANGED outsideIrq

\* kernel_main has initialised the heap: interrupts are enabled and the first task runs
KernelStart ==
    /\ heap_inited /\ cur = "boot"
    /\ rflags_if' = TRUE
    /\ cur' = "task1"
    /\ UNCHANGED <<slab, buddy, irq_ret, cx, waiters, wq_buf, blocked>>
    /\ wi_op' = NoWiOp
    /\ UNCHANGED outsideIrq

\* a timer interrupt taken with IF set ends in a switch to another ready task
Preempt(t) ==
    /\ heap_inited /\ rflags_if
    /\ cur \in Tasks \cup {"idle"}
    /\ t \in Tasks \ blocked /\ t # cur
    /\ cur' = t
    /\ UNCHANGED <<slab, buddy, rflags_if, irq_ret, cx, waiters, wq_buf, blocked>>
    /\ wi_op' = NoWiOp
    /\ UNCHANGED outsideIrq

\* an interrupt taken with IF set: the gate clears IF and the handler runs
IrqEntry ==
    /\ heap_inited /\ rflags_if
    /\ cur \in Tasks \cup {"idle"}
    /\ cx["irq"].pc = "off"
    /\ irq_ret' = cur
    /\ cur' = "irq"
    /\ rflags_if' = FALSE
    /\ cx' = [cx EXCEPT !["irq"].pc = "idle"]
    /\ UNCHANGED <<slab, buddy, waiters, wq_buf, blocked>>
    /\ wi_op' = NoWiOp
    /\ UNCHANGED outsideIrq

\* iretq: the interrupted context runs again with the flags it had
IrqReturn ==
    /\ At("irq", "idle")
    /\ cx["irq"].own = {}
    /\ cur' = irq_ret
    /\ irq_ret' = "none"
    /\ rflags_if' = TRUE
    /\ cx' = [cx EXCEPT !["irq"].pc = "off"]
    /\ UNCHANGED <<slab, buddy, waiters, wq_buf, blocked>>
    /\ wi_op' = NoWiOp
    /\ UNCHANGED outsideIrq

IrqNext ==
    \/ HeapInit
    \/ KernelStart
    \/ \E t \in Tasks : Preempt(t)
    \/ IrqEntry
    \/ IrqReturn
    \/ \E c \in Contexts, l \in IrqLayouts : CallAlloc(c, l)
    \/ \E c \in Contexts : \E b \in cx[c].own : CallDealloc(c, b)
    \/ \E c \in Contexts : SlabAllocRead(c)
    \/ \E c \in Contexts : SlabAllocWrite(c)
    \/ \E c \in Contexts : SlabAllocExit(c)
    \/ \E c \in Contexts : BuddyAllocEnter(c)
    \/ \E c \in Contexts : BuddyAllocBody(c)
    \/ \E c \in Contexts : BuddyAllocExit(c)
    \/ \E c \in Contexts : SlabFreeLink(c)
    \/ \E c \in Contexts : SlabFreeWrite(c)
    \/ \E c \in Contexts : BuddyFreeBody(c)
    \/ \E c \in Contexts : FreeExit(c)
    \/ \E c \in Tasks : CallWait(c)
    \/ \E c \in Contexts : WqWaitPush(c)
    \/ \E c \in Contexts : WqWaitExit(c)
    \/ \E c \in Contexts : WqWaitBlock(c)
    \/ \E c \in Contexts, all \in BOOLEAN : WqWakeEnter(c, all)
    \/ \E c \in Contexts : WqWakePop(c)
    \/ \E c \in Contexts : WqWakeExit(c)
    \/ \E c \in Contexts : WqWakeUnblock(c)

(***************************************************************************)
(* Scheduler and time: crate::sched, crate::task and crate::timer, as the   *)
(* callers in the kernel use them                                          *)
(***************************************************************************)
\* the tasks added with add_task, and kernel_main's hlt loop as the initial task
SchedTasks == {"a", "b", "c"}
InitialTask == "main"
AllTasks == SchedTasks \cup {InitialTask}

\* nice of each task: lower runs first
nice == [a |-> 0, b |-> 0, c |-> 1, main |-> 2]

\* tick frequencies the timer source can be calibrated to, and the sleeps of
\* the kernel's tasks (a frame, half a second)
Frequencies == {100, 125}
SleepMs == {16, 500}

\* ticks = ms * frequency_hz / 1000
ms_to_ticks(ms, f) == (ms * f) \div 1000

RemoveAt(q, i) == [j \in 1 .. Len(q) - 1 |-> IF j < i THEN q[j] ELSE q[j + 1]]

\* the ready task the scheduler takes: the first of the lowest nice, and the last
pick_next_Lifo(rq) ==
    CHOOSE i \in 1 .. Len(rq) :
        /\ \A j \in 1 .. Len(rq) : nice[rq[i]] <= nice[rq[j]]
        /\ \A j \in 1 .. Len(rq) : nice[rq[j]] = nice[rq[i]] => j <= i
pick_next(rq) ==
    CHOOSE i \in 1 .. Len(rq) :
        /\ \A j \in 1 .. Len(rq) : nice[rq[i]] <= nice[rq[j]]
        /\ \A j \in 1 .. Len(rq) : nice[rq[j]] = nice[rq[i]] => i <= j

\* schedule(): a running current task goes to the tail of the ready queue, the
\* next task is taken from the queue and becomes the current one
schedule(s) ==
    LET runs == s.current # NoTask /\ s.state[s.current] = "Running"
        rq == IF runs THEN Append(s.ready, s.current) ELSE s.ready
        st == IF runs THEN [s.state EXCEPT ![s.current] = "Ready"] ELSE s.state
    IN  IF rq = <<>> THEN [s EXCEPT !.current = NoTask, !.state = st, !.ready = rq]
        ELSE LET i == pick_next(rq)
             IN  [s EXCEPT !.current = rq[i], !.state = [st EXCEPT ![rq[i]] = "Running"],
                           !.ready = RemoveAt(rq, i)]

\* sleep_ms(ms): deadline = current_tick + ms * ticks_per_ms, Sleeping, yield
sched_sleep_ms(s, ms, f) ==
    LET deadline == s.tick + ms_to_ticks(ms, f)
    IN  schedule([s EXCEPT !.state[s.current] = "Sleeping",
                           !.sleeping = @ \cup {[deadline |-> deadline, id |-> s.current]}])

\* block_current_task(): Blocked, yield
sched_block_current_task(s) == schedule([s EXCEPT !.state[s.current] = "Blocked"])

\* unblock_task(id) that makes any task that is not ready Ready
sched_unblock_task_AnyState(s, id) ==
    IF s.state[id] \in {"Blocked", "Sleeping"}
    THEN [s EXCEPT !.state[id] = "Ready", !.ready = Append(@, id),
                   !.sleeping = {e \in @ : e.id # id}]
    ELSE s

\* unblock_task(id) that does nothing
sched_unblock_task_Nop(s, id) == s

\* unblock_task(id): the blocked task is moved to Ready
sched_unblock_task(s, id) ==
    IF s.state[id] = "Blocked"
    THEN [s EXCEPT !.state[id] = "Ready", !.ready = Append(@, id)]
    ELSE s

increment_tick(s) == [s EXCEPT !.tick = @ + 1]

\* the orders in which a set of sleeping records can leave the min-heap
RECURSIVE HeapOrders(_)
HeapOrders(es) ==
    IF es = {} THEN {<<>>}
    ELSE UNION {{<<e.id>> \o rest : rest \in HeapOrders(es \ {e})} :
                   e \in {x \in es : \A y \in es : x.deadline <= y.deadline}}

\* check_timers(): every expired sleeper is moved to the ready queue; the
\* states it can leave, one for each order of equal deadlines
check_timers(s) ==
    LET expired == {e \in s.sleeping : e.deadline <= s.tick}
    IN  {[s EXCEPT !.sleeping = @ \ expired,
                   !.ready = @ \o woken,
                   !.state = [t \in AllTasks |->
                                 IF \E e \in expired : e.id = t THEN "Ready" ELSE @[t]]] :
            woken \in HeapOrders(expired)}

\* timer_handler_inner with the end-of-interrupt sent first
timer_handler_calls_EoiFirst == <<"send_eoi", "increment_tick", "check_timers">>

\* the calls of timer_handler_inner, in the order of its body
timer_handler_calls == <<"increment_tick", "check_timers", "send_eoi">>

\* no end-of-interrupt yet; send_eoi is recorded with the tick count and the
\* sleepers it finds
NoEoi == [sent |-> FALSE, tick |-> 0, sleeping |-> {}]

\* one call of the handler: the scheduler states it can leave
HandlerCall(call, h) ==
    IF call = "increment_tick" THEN {[h EXCEPT !.s = increment_tick(h.s)]}
    ELSE IF call = "check_timers" THEN {[h EXCEPT !.s = s1] : s1 \in check_timers(h.s)}
    ELSE {[h EXCEPT !.eoi = [sent |-> TRUE, tick |-> h.s.tick, sleeping |-> h.s.sleeping]]}

RECURSIVE HandlerRun(_, _)
HandlerRun(calls, hs) ==
    IF calls = <<>> THEN hs
    ELSE HandlerRun(Tail(calls), UNION {HandlerCall(Head(calls), h) : h \in hs})

\* the handler from entry to return: the scheduler state and the record of
\* send_eoi
timer_handler_run(s) == HandlerRun(timer_handler_calls, {[s |-> s, eoi |-> NoEoi]})

\* timer_handler_inner: increment_tick, check_timers, send_eoi
timer_handler_inner(s) == {h.s : h \in timer_handler_run(s)}

\* the record of a step: the call, the caller, the task id it is about, what it
\* returned, the tasks it woke, and whether it went through schedule()
NoSchedOp == [kind |-> "none", who |-> NoTask, id |-> NoTask, ret |-> FALSE, woken |-> {},
              yield |-> FALSE, eoi |-> NoEoi]
SchedOp(kind, who, id, ret) == [NoSchedOp EXCEPT !.kind = kind, !.who = who, !.id = id,
                                                 !.ret = ret]

\* the exceptions init registers a handler for
ExceptionVectors == {0, 1, 3, 6, 8, 13, 14}
NoVector == 255

\* IdtEntry::new: attributes of a trap gate, and of the interrupt gate it builds
IdtAttributes_TrapGate == 128 + 15
IdtAttributes == 128 + 14

\* the CPU clears IF on entry through an interrupt gate (type 0xE)
gate_clears_if(attributes) == attributes % 16 = 14

\* tasks run with interrupts enabled
CpuRunning == [halted |-> NoVector, rflags_if |-> TRUE]

\* what the handler of the vector does after printing: breakpoint returns,
\* double fault loops on cli; hlt, the others loop on hlt
exception_handler_inner(vector, if_on_entry) ==
    IF vector = 3 THEN [returns |-> TRUE, rflags_if |-> if_on_entry]
    ELSE IF vector = 8 THEN [returns |-> FALSE, rflags_if |-> FALSE]
    ELSE [returns |-> FALSE, rflags_if |-> if_on_entry]

\* a task between calls, and the locals of the call it is in
TaskIdle == [pc |-> "run", q |-> "wq", tid |-> NoTask, all |-> FALSE,
             sleep_tick |-> 0, sleep_ms |-> 0]

WaitQueues == {"wq", "mutex"}

\* nothing of the scheduler runs
SchedIdle ==
    /\ sched = [tick |-> 0, state |-> [t \in AllTasks |-> "Ready"], ready |-> <<>>,
                sleeping |-> {}, current |-> NoTask]
    /\ frequency_hz = 100
    /\ wq = [q \in WaitQueues |-> <<>>]
    /\ mtx = [locked |-> FALSE, guards |-> {}]
    /\ tcx = [t \in AllTasks |-> TaskIdle]
    /\ cpu = CpuRunning
    /\ sch_op = NoSchedOp

\* the kernel has added its tasks in some order and calls schedule() for the
\* first time from the initial task
SchedStart ==
    /\ \E order \in HeapOrders({[deadline |-> 0, id |-> t] : t \in SchedTasks}) :
           sched = schedule([tick |-> 0,
                             state |-> [t \in AllTasks |->
                                           IF t = InitialTask THEN "Running" ELSE "Ready"],
                             ready |-> order, sleeping |-> {}, current |-> InitialTask])
    /\ frequency_hz \in Frequencies
    /\ wq = [q \in WaitQueues |-> <<>>]
    /\ mtx = [locked |-> FALSE, guards |-> {}]
    /\ tcx = [t \in AllTasks |-> TaskIdle]
    /\ cpu = CpuRunning
    /\ sch_op = NoSchedOp

\* the current task is t, between calls
Runs(t) == cpu.halted = NoVector /\ sched.current = t /\ t \in SchedTasks /\ tcx[t].pc = "run"

\* the locals of the tasks after a step: a task that is dispatched has returned
\* from its sleep_ms
Dispatched(tc, s2) ==
    [t \in AllTasks |->
        IF s2.current = t /\ sched.current # t
        THEN [tc[t] EXCEPT !.sleep_tick = 0, !.sleep_ms = 0] ELSE tc[t]]

\* the timer interrupt: the handler runs, and the running task may be
\* pre-empted on the way out
TimerTick(preempt) ==
    /\ cpu.rflags_if /\ sched.tick < MaxTick
    /\ \E h \in timer_handler_run(sched) :
           LET s1 == h.s
               s2 == IF preempt THEN schedule(s1) ELSE s1
           IN  /\ sched' = s2
               /\ tcx' = Dispatched(tcx, s2)
               /\ sch_op' = [SchedOp("timer", NoTask, NoTask, preempt) EXCEPT
                                !.woken = {e.id : e \in sched.sleeping \ s1.sleeping},
                                !.yield = preempt, !.eoi = h.eoi]
    /\ UNCHANGED <<frequency_hz, wq, mtx, cpu>>
    /\ UNCHANGED outsideSched

SleepMsCall(t, ms) ==
    /\ Runs(t)
    /\ LET s2 == sched_sleep_ms(sched, ms, frequency_hz)
       IN  /\ sched' = s2
           /\ tcx' = Dispatched([tcx EXCEPT ![t].sleep_tick = sched.tick,
                                            ![t].sleep_ms = ms], s2)
    /\ sch_op' = [SchedOp("sleep_ms", t, t, FALSE) EXCEPT !.yield = TRUE]
    /\ UNCHANGED <<frequency_hz, wq, mtx, cpu>>
    /\ UNCHANGED outsideSched

BlockCurrentTask(t) ==
    /\ Runs(t)
    /\ LET s2 == sched_block_current_task(sched)
       IN  /\ sched' = s2
           /\ tcx' = Dispatched(tcx, s2)
    /\ sch_op' = [SchedOp("block_current_task", t, t, FALSE) EXCEPT !.yield = TRUE]
    /\ UNCHANGED <<frequency_hz, wq, mtx, cpu>>
    /\ UNCHANGED outsideSched

UnblockTask(t, id) ==
    /\ Runs(t)
    /\ sched' = sched_unblock_task(sched, id)
    /\ sch_op' = [SchedOp("unblock_task", t, id, FALSE) EXCEPT
                     !.woken = IF sched.state[id] = "Blocked" THEN {id} ELSE {}]
    /\ UNCHANGED <<frequency_hz, wq, mtx, tcx, cpu>>
    /\ UNCHANGED outsideSched

\* VecDeque::push_back
push_back(q, id) == Append(q, id)

\* VecDeque::pop_front taking the back instead
pop_front_FromBack(q) ==
    IF q = <<>> THEN [id |-> NoTask, rest |-> q]
    ELSE [id |-> q[Len(q)], rest |-> SubSeq(q, 1, Len(q) - 1)]

\* VecDeque::pop_front: None on an empty queue
pop_front(q) ==
    IF q = <<>> THEN [id |-> NoTask, rest |-> q] ELSE [id |-> Head(q), rest |-> Tail(q)]

\* the current task is t, at position pc of a call
AtPc(t, pc) == cpu.halted = NoVector /\ sched.current = t /\ t \in SchedTasks /\ tcx[t].pc = pc

\* WaitQueue::wait that blocks the task before interrupts are enabled again
WqPush_BlocksAtOnce(t, q) ==
    /\ Runs(t) /\ Len(wq[q]) < MaxWaiters
    /\ wq' = [wq EXCEPT ![q] = push_back(@, t)]
    /\ LET s2 == sched_block_current_task(sched)
       IN  /\ sched' = s2
           /\ tcx' = Dispatched([tcx EXCEPT ![t].q = q], s2)
    /\ sch_op' = [SchedOp("wq_push", t, t, FALSE) EXCEPT !.yield = TRUE]
    /\ UNCHANGED <<frequency_hz, mtx, cpu>>
    /\ UNCHANGED outsideSched

\* WaitQueue::wait, first half: the task id is pushed with interrupts disabled
WqPush(t, q) ==
    /\ Runs(t) /\ Len(wq[q]) < MaxWaiters
    /\ wq' = [wq EXCEPT ![q] = push_back(@, t)]
    /\ tcx' = [tcx EXCEPT ![t].pc = "wait_block", ![t].q = q]
    /\ sch_op' = SchedOp("wq_push", t, t, FALSE)
    /\ UNCHANGED <<sched, frequency_hz, mtx, cpu>>
    /\ UNCHANGED outsideSched

\* WaitQueue::wait, second half: block_current_task() after the lock is released
WqBlock(t) ==
    /\ AtPc(t, "wait_block")
    /\ LET s2 == sched_block_current_task(sched)
       IN  /\ sched' = s2
           /\ tcx' = Dispatched([tcx EXCEPT ![t].pc = "run"], s2)
    /\ sch_op' = [SchedOp("block_current_task", t, t, FALSE) EXCEPT !.yield = TRUE]
    /\ UNCHANGED <<frequency_hz, wq, mtx, cpu>>
    /\ UNCHANGED outsideSched

\* WaitQueue::wake_one (all = FALSE, called by a task or by the drop of a mutex
\* guard) and a round of the loop of wake_all (all = TRUE), first half:
\* pop_front with interrupts disabled; on None wake_one returns false and
\* wake_all breaks
WqPop(t, q, all) ==
    /\ \/ Runs(t) /\ q = "wq"
       \/ AtPc(t, "wake_again") /\ all /\ tcx[t].q = q
       \/ AtPc(t, "unlock_wake") /\ ~all /\ q = "mutex"
    /\ LET r == pop_front(wq[q])
       IN  /\ wq' = [wq EXCEPT ![q] = r.rest]
           /\ tcx' = [tcx EXCEPT ![t].pc = IF r.id = NoTask THEN "run" ELSE "wake_unblock",
                                 ![t].q = q, ![t].tid = r.id,
                                 ![t].all = all /\ r.id # NoTask]
           /\ sch_op' = IF r.id # NoTask THEN SchedOp("wq_pop", t, r.id, all)
                        ELSE IF all THEN SchedOp("wake_all", t, NoTask, FALSE)
                        ELSE SchedOp("wake_one", t, NoTask, FALSE)
    /\ UNCHANGED <<sched, frequency_hz, mtx, cpu>>
    /\ UNCHANGED outsideSched

\* second half: unblock_task(id) after the lock is released; wake_one returns
\* true, wake_all goes round again
WqUnblock(t) ==
    /\ AtPc(t, "wake_unblock")
    /\ sched' = sched_unblock_task(sched, tcx[t].tid)
    /\ tcx' = [tcx EXCEPT ![t].pc = IF tcx[t].all THEN "wake_again" ELSE "run",
                          ![t].tid = NoTask]
    /\ sch_op' = [SchedOp("unblock_task", t, tcx[t].tid, ~tcx[t].all) EXCEPT
                     !.woken = IF sched.state[tcx[t].tid] = "Blocked" THEN {tcx[t].tid}
                               ELSE {}]
    /\ UNCHANGED <<frequency_hz, wq, mtx, cpu>>
    /\ UNCHANGED outsideSched

\* BlockingMutex::try_lock that takes the lock without looking at it
mtx_try_lock_NoCheck(m, t) ==
    [m |-> [locked |-> TRUE, guards |-> m.guards \cup {t}], ok |-> TRUE]

\* BlockingMutex::try_lock: the lock word goes from free to taken, or None
mtx_try_lock(m, t) ==
    IF m.locked THEN [m |-> m, ok |-> FALSE]
    ELSE [m |-> [locked |-> TRUE, guards |-> m.guards \cup {t}], ok |-> TRUE]

\* the drop of the guard: the lock word is released
mtx_release(m, t) == [locked |-> FALSE, guards |-> m.guards \ {t}]

\* try_lock(): Some(guard) or None, the caller runs on
MtxTryLock(t) ==
    /\ Runs(t)
    /\ LET r == mtx_try_lock(mtx, t)
       IN  /\ mtx' = r.m
           /\ sch_op' = SchedOp("try_lock", t, t, r.ok)
    /\ UNCHANGED <<sched, frequency_hz, wq, tcx, cpu>>
    /\ UNCHANGED outsideSched

\* lock(): the lock is taken when free; when contended the caller goes on to
\* park on the mutex's wait queue, and tries again when it runs next
MtxLock(t) ==
    /\ Runs(t) \/ AtPc(t, "lock_retry")
    /\ t \notin mtx.guards
    /\ LET r == mtx_try_lock(mtx, t)
       IN  /\ mtx' = r.m
           /\ tcx' = [tcx EXCEPT ![t].pc = IF r.ok THEN "run" ELSE "lock_park"]
           /\ sch_op' = SchedOp("lock", t, t, r.ok)
    /\ UNCHANGED <<sched, frequency_hz, wq, cpu>>
    /\ UNCHANGED outsideSched

\* the wait() of a contended lock(), first half
MtxPark(t) ==
    /\ AtPc(t, "lock_park") /\ Len(wq["mutex"]) < MaxWaiters
    /\ wq' = [wq EXCEPT !["mutex"] = push_back(@, t)]
    /\ tcx' = [tcx EXCEPT ![t].pc = "lock_block", ![t].q = "mutex"]
    /\ sch_op' = SchedOp("wq_push", t, t, FALSE)
    /\ UNCHANGED <<sched, frequency_hz, mtx, cpu>>
    /\ UNCHANGED outsideSched

\* second half: block_current_task(); the task retries when it is dispatched
MtxParkBlock(t) ==
    /\ AtPc(t, "lock_block")
    /\ LET s2 == sched_block_current_task(sched)
       IN  /\ sched' = s2
           /\ tcx' = Dispatched([tcx EXCEPT ![t].pc = "lock_retry"], s2)
    /\ sch_op' = [SchedOp("block_current_task", t, t, FALSE) EXCEPT !.yield = TRUE]
    /\ UNCHANGED <<frequency_hz, wq, mtx, cpu>>
    /\ UNCHANGED outsideSched

\* the guard goes out of scope: the lock is released, then wake_one() runs
MtxUnlock(t) ==
    /\ Runs(t) /\ t \in mtx.guards
    /\ mtx' = mtx_release(mtx, t)
    /\ tcx' = [tcx EXCEPT ![t].pc = "unlock_wake", ![t].q = "mutex"]
    /\ sch_op' = SchedOp("unlock", t, t, FALSE)
    /\ UNCHANGED <<sched, frequency_hz, wq, cpu>>
    /\ UNCHANGED outsideSched

\* the running task raises an exception: the gate is entered, the handler
\* runs, and iretq restores the flags when the handler returns
Exception(t, vector) ==
    /\ Runs(t)
    /\ LET if_on_entry == cpu.rflags_if /\ ~gate_clears_if(IdtAttributes)
           r == exception_handler_inner(vector, if_on_entry)
       IN  cpu' = IF r.returns THEN cpu
                  ELSE [halted |-> vector, rflags_if |-> r.rflags_if]
    /\ sch_op' = SchedOp("exception", t, t, vector = 3)
    /\ UNCHANGED <<sched, frequency_hz, wq, mtx, tcx>>
    /\ UNCHANGED outsideSched

\* the scheduler with its timed sleeps
SchedNext ==
    \/ \E t \in SchedTasks, vector \in ExceptionVectors : Exception(t, vector)
    \/ \E preempt \in BOOLEAN : TimerTick(preempt)
    \/ \E t \in SchedTasks, ms \in SleepMs : SleepMsCall(t, ms)
    \/ \E t \in SchedTasks : BlockCurrentTask(t)
    \/ \E t \in SchedTasks, id \in SchedTasks : UnblockTask(t, id)

\* a wait queue on top of the scheduler
WqNext ==
    \/ \E preempt \in BOOLEAN : TimerTick(preempt)
    \/ \E t \in SchedTasks, id \in SchedTasks : UnblockTask(t, id)
    \/ \E t \in SchedTasks : WqPush(t, "wq")
    \/ \E t \in SchedTasks : WqBlock(t)
    \/ \E t \in SchedTasks, all \in BOOLEAN : WqPop(t, "wq", all)
    \/ \E t \in SchedTasks : WqUnblock(t)

\* the blocking mutex on top of its wait queue and the scheduler
MutexNext ==
    \/ \E preempt \in BOOLEAN : TimerTick(preempt)
    \/ \E t \in SchedTasks : BlockCurrentTask(t)
    \/ \E t \in SchedTasks, id \in SchedTasks : UnblockTask(t, id)
    \/ \E t \in SchedTasks : WqPop(t, "mutex", FALSE)
    \/ \E t \in SchedTasks : WqUnblock(t)
    \/ \E t \in SchedTasks : MtxTryLock(t)
    \/ \E t \in SchedTasks : MtxLock(t)
    \/ \E t \in SchedTasks : MtxPark(t)
    \/ \E t \in SchedTasks : MtxParkBlock(t)
    \/ \E t \in SchedTasks : MtxUnlock(t)

(***************************************************************************)
(* The drawing pipeline: graphics/buffer.rs, graphics/compositor.rs,       *)
(* graphics/shadow_buffer.rs, and the tasks that write through it          *)
(***************************************************************************)
\* buffers registered, and commands a buffer holds at a time: in the normal
\* build, and with visualize-pipeline, where every command takes the compositor
\* half a second
MaxBuffers == 3
MaxCommands == 2
MaxSyncCommands == 1

\* ticks up to which the time to a deadline is counted
SleepHorizon == 2

\* compositor_task runs as one task, the writers as the others
CompositorTask == "a"
WriterTasks == {"b", "c"}

\* the 8x8 font: a frame buffer is seen as cells of one glyph each; the
\* configured frame buffer is one row of them
FONT_WIDTH == 8

CompositorConfig == [fb_width |-> 160, fb_height |-> 8]
Cells == 0 .. CompositorConfig.fb_width \div FONT_WIDTH - 1

\* a cell: the colour it was filled with, and the colours of the glyph pixels on it
Colour == [black |-> 0, blue |-> 128, white |-> 16777215]
NoInk == {}
Cell(bg, ink) == [bg |-> bg, ink |-> ink]

\* Region::new
Region(x, y, width, height) == [x |-> x, y |-> y, width |-> width, height |-> height]

\* the regions the writer tasks register, and the one kernel_main registers
WriterRegion == [b |-> Region(0, 0, 80, 8), c |-> Region(80, 0, 80, 8),
                 main |-> Region(0, 0, 160, 8)]

\* DrawCommand, every variant with the fields of all
DrawCommand(kind, x, y, width, height, text, color) ==
    [kind |-> kind, x |-> x, y |-> y, width |-> width, height |-> height, text |-> text,
     color |-> color]
Hello == <<"h", "e", "l", "l", "o">>

\* the commands each writer publishes
WriterCommands ==
    [b |-> {DrawCommand("Clear", 0, 0, 0, 0, <<>>, Colour.blue),
            DrawCommand("DrawString", 0, 0, 0, 0, Hello, Colour.white),
            DrawCommand("FillRect", 0, 0, 16, 8, <<>>, Colour.white)},
     c |-> {DrawCommand("DrawChar", 8, 0, 0, 0, <<"x">>, Colour.blue),
            DrawCommand("FillRect", 0, 0, 16, 8, <<>>, Colour.white)}]

\* the cells a span of pixels of the row covers
CellsOf(x, width) == {c \in Cells : x <= c * FONT_WIDTH /\ c * FONT_WIDTH < x + width}

\* graphics::draw_rect: the pixels of the rectangle take the colour
draw_rect(buf, x, y, width, height, color) ==
    [c \in Cells |-> IF c \in CellsOf(x, width) /\ height > 0 THEN Cell(color, NoInk)
                     ELSE buf[c]]

\* graphics::draw_string: one glyph per character, FONT_WIDTH apart
draw_string(buf, x, y, text, color) ==
    [c \in Cells |-> IF c \in CellsOf(x, Len(text) * FONT_WIDTH)
                     THEN [buf[c] EXCEPT !.ink = {color}] ELSE buf[c]]

\* graphics::draw_char
draw_char(buf, x, y, ch, color) == draw_string(buf, x, y, <<ch>>, color)

\* one arm of the match in render_commands_to
render_command(buf, region, cmd) ==
    CASE cmd.kind = "Clear" ->
             draw_rect(buf, region.x, region.y, region.width, region.height, cmd.color)
      [] cmd.kind = "DrawChar" ->
             draw_char(buf, region.x + cmd.x, region.y + cmd.y, cmd.text[1], cmd.color)
      [] cmd.kind = "DrawString" ->
             draw_string(buf, region.x + cmd.x, region.y + cmd.y, cmd.text, cmd.color)
      [] cmd.kind = "FillRect" ->
             draw_rect(buf, region.x + cmd.x, region.y + cmd.y, cmd.width, cmd.height,
                       cmd.color)

\* render_commands_to that walks the slice from its end
RECURSIVE render_commands_to_Reversed(_, _, _)
render_commands_to_Reversed(buf, region, commands) ==
    IF commands = <<>> THEN buf
    ELSE render_commands_to_Reversed(render_command(buf, region, commands[Len(commands)]),
                                     region, SubSeq(commands, 1, Len(commands) - 1))

\* render_commands_to: for cmd in commands, from the first
RECURSIVE render_commands_to(_, _, _)
render_commands_to(buf, region, commands) ==
    IF commands = <<>> THEN buf
    ELSE render_commands_to(render_command(buf, region, Head(commands)), region,
                            Tail(commands))

\* the accumulated dirty rectangle: None, or Some rectangle
NoDirty == [some |-> FALSE, x |-> 0, y |-> 0, width |-> 0, height |-> 0]
SomeDirty(x, y, width, height) ==
    [some |-> TRUE, x |-> x, y |-> y, width |-> width, height |-> height]

\* expand_dirty that keeps the newest rectangle only
expand_dirty_Replaces(cumulative_dirty, x, y, w, h) == SomeDirty(x, y, w, h)

\* MiniVisualizationState::expand_dirty: the bounding box of the accumulated
\* rectangle and the new one
expand_dirty(cumulative_dirty, x, y, w, h) ==
    IF cumulative_dirty.some
    THEN LET min_x == Min(cumulative_dirty.x, x)
             min_y == Min(cumulative_dirty.y, y)
             max_x == Max(cumulative_dirty.x + cumulative_dirty.width, x + w)
             max_y == Max(cumulative_dirty.y + cumulative_dirty.height, y + h)
         IN  SomeDirty(min_x, min_y, max_x - min_x, max_y - min_y)
    ELSE SomeDirty(x, y, w, h)

\* ShadowBuffer::mark_dirty: the accumulated rectangle grows to the bounding
\* box with the region
mark_dirty(dirty_rect, region) ==
    expand_dirty(dirty_rect, region.x, region.y, region.width, region.height)

\* the footprint with the coordinates of the command taken as absolute
command_footprint_Local(region, cmd) ==
    CASE cmd.kind = "Clear" -> region
      [] cmd.kind = "DrawChar" -> Region(cmd.x, cmd.y, 8, 8)
      [] cmd.kind = "DrawString" -> Region(cmd.x, cmd.y, Len(cmd.text) * 8, 8)
      [] cmd.kind = "FillRect" -> Region(cmd.x, cmd.y, cmd.width, cmd.height)

\* the region each arm of the match in render_commands_to hands to mark_dirty
command_footprint(region, cmd) ==
    CASE cmd.kind = "Clear" -> region
      [] cmd.kind = "DrawChar" -> Region(region.x + cmd.x, region.y + cmd.y, 8, 8)
      [] cmd.kind = "DrawString" ->
             Region(region.x + cmd.x, region.y + cmd.y, Len(cmd.text) * 8, 8)
      [] cmd.kind = "FillRect" ->
             Region(region.x + cmd.x, region.y + cmd.y, cmd.width, cmd.height)

\* render_commands_to, its calls of mark_dirty: one per command, from the first
RECURSIVE render_commands_dirty(_, _, _)
render_commands_dirty(dirty_rect, region, commands) ==
    IF commands = <<>> THEN dirty_rect
    ELSE render_commands_dirty(mark_dirty(dirty_rect, command_footprint(region, Head(commands))),
                               region, Tail(commands))

\* ShadowBuffer::new: vec![0u32; width * height]
ShadowBuffer_new == [c \in Cells |-> Cell(Colour.black, NoInk)]

\* blit_to that copies nothing
blit_to_Nothing(buf, hw) == hw

\* ShadowBuffer::blit_to: the whole buffer is copied
blit_to(buf, hw) == buf

\* WriterBuffer::new
WriterBuffer_new(region) ==
    [commands |-> <<>>, dirty |-> FALSE, region |-> region, owner_task_id |-> NoTask,
     vis_buffer_index |-> 0, lock |-> [locked |-> FALSE, guards |-> {}], waiters |-> <<>>]

\* push_command that puts the command in front
push_command_Front(b, cmd) == [b EXCEPT !.commands = <<cmd>> \o @, !.dirty = TRUE]

\* WriterBuffer::push_command
push_command(b, cmd) == [b EXCEPT !.commands = Append(@, cmd), !.dirty = TRUE]

\* extend_commands that sets the flag whatever the iterator yields
extend_commands_AlwaysDirty(b, commands) == [b EXCEPT !.commands = @ \o commands, !.dirty = TRUE]

\* WriterBuffer::extend_commands: the flag is set if the list has grown
extend_commands(b, commands) ==
    LET old_len == Len(b.commands)
        extended == [b EXCEPT !.commands = @ \o commands]
    IN  IF Len(extended.commands) > old_len THEN [extended EXCEPT !.dirty = TRUE]
        ELSE extended

\* clear_commands that leaves the flag
clear_commands_KeepsDirty(b) == [b EXCEPT !.commands = <<>>]

\* WriterBuffer::clear_commands
clear_commands(b) == [b EXCEPT !.commands = <<>>, !.dirty = FALSE]

\* Compositor::new: buffers = Arc::new(Vec::new())
Compositor_new == [inited |-> TRUE, buffers |-> 1]
Compositor_None == [inited |-> FALSE, buffers |-> 0]

\* Compositor::register_writer that pushes into the vector in place
Compositor_register_writer_InPlace(c, vs, wb, region) ==
    [c |-> c,
     vs |-> [vs EXCEPT ![c.buffers] = Append(@, Len(wb) + 1)],
     wb |-> Append(wb, [WriterBuffer_new(region) EXCEPT
                           !.vis_buffer_index = IF vis_mode THEN Len(vs[c.buffers]) + 1
                                                ELSE 0]),
     buffer |-> Len(wb) + 1]

\* Compositor::register_writer: the buffer is created, the vector is cloned,
\* the clone gets the buffer pushed and replaces the one self.buffers points at
Compositor_register_writer(c, vs, wb, region) ==
    LET new_buffers == Append(vs[c.buffers], Len(wb) + 1)
    IN  [c |-> [c EXCEPT !.buffers = Len(vs) + 1],
         vs |-> Append(vs, new_buffers),
         wb |-> Append(wb, [WriterBuffer_new(region) EXCEPT
                               !.vis_buffer_index = IF vis_mode THEN Len(new_buffers)
                                                    ELSE 0]),
         buffer |-> Len(wb) + 1]

\* the end of register_writer that always executes sti
register_writer_restore_AlwaysSti(flags_if) == TRUE

\* the end of register_writer: sti if the saved flags had IF set
register_writer_restore(flags_if) == IF flags_if THEN TRUE ELSE FALSE

\* the locals of a task in the pipeline: the buffer a writer got from
\* register_writer, and in cmd_idx whether it has published since it took the
\* lock; the compositor's buffers_snapshot, its position in it and
\* the commands it took from the buffer under its hands; and what the frame has
\* done so far: the vector the snapshot held when it was taken, the buffers it
\* rendered with their commands, the dirty buffers it could not lock; and the
\* dirty rectangle of the compositor's shadow buffer
GfxLocals ==
    [pc |-> "none", buffer |-> 0, buffers_snapshot |-> 0, buffer_idx |-> 0,
     commands_copy |-> <<>>, cmd_idx |-> 0, snapshot_held |-> <<>>, consumed |-> {},
     missed |-> {}, dirty_rect |-> NoDirty]

\* the record of a step: the call, the caller, the buffer it is about, whether
\* it got the buffer or lock, and RFLAGS.IF on entry
NoGfxOp == [kind |-> "none", who |-> NoTask, buffer |-> 0, ok |-> FALSE, flags_if |-> FALSE]
GfxOp(kind, who, buffer, ok) ==
    [kind |-> kind, who |-> who, buffer |-> buffer, ok |-> ok, flags_if |-> cpu.rflags_if]

\* nothing of the pipeline exists
GfxIdle ==
    /\ vis_mode = FALSE
    /\ compositor = Compositor_None
    /\ vecs = <<>>
    /\ wbuf = <<>>
    /\ gt = [t \in AllTasks |-> GfxLocals]
    /\ shadow = ShadowBuffer_new
    /\ hw_fb = ShadowBuffer_new
    /\ gfx_op = NoGfxOp

\* kernel_main before the compositor is initialised and the scheduler started,
\* with interrupts on or off
GfxStart(vis) ==
    /\ vis_mode = vis
    /\ compositor = Compositor_None
    /\ vecs = <<>>
    /\ wbuf = <<>>
    /\ gt = [t \in AllTasks |-> IF t = InitialTask THEN [GfxLocals EXCEPT !.pc = "boot"]
                                ELSE GfxLocals]
    /\ shadow = ShadowBuffer_new
    /\ hw_fb = ShadowBuffer_new
    /\ gfx_op = NoGfxOp
    /\ sched = [tick |-> 0, state |-> [t \in AllTasks |-> "Ready"], ready |-> <<>>,
                sleeping |-> {}, current |-> NoTask]
    /\ frequency_hz = 100
    /\ wq = [q \in WaitQueues |-> <<>>]
    /\ mtx = [locked |-> FALSE, guards |-> {}]
    /\ tcx = [t \in AllTasks |-> TaskIdle]
    /\ cpu \in {[halted |-> NoVector, rflags_if |-> i] : i \in BOOLEAN}
    /\ sch_op = NoSchedOp

\* the task is on the CPU at the position
GfxAt(t, pc) ==
    /\ cpu.halted = NoVector /\ gt[t].pc = pc
    /\ sched.current = t \/ (t = InitialTask /\ pc = "boot")

\* the tick count is kept relative to now: deadlines are ticks from now, and a
\* deadline more than SleepHorizon ticks away is kept as "further away"
Rebase(s) ==
    [s EXCEPT !.tick = 0,
              !.sleeping = {[deadline |-> Min(e.deadline - s.tick, SleepHorizon + 1),
                             id |-> e.id] : e \in @}]

\* the sleepers whose deadline is further away stay so over the next tick
Further(s) ==
    [s EXCEPT !.sleeping = {[deadline |-> IF e.deadline - s.tick > SleepHorizon
                                          THEN e.deadline + 1 ELSE e.deadline,
                             id |-> e.id] : e \in @}]

\* the drop of a buffer's guard: the lock word is released, wake_one() makes
\* the first waiter Ready
buffer_unlock(b, s, t) ==
    [b |-> [b EXCEPT !.lock = mtx_release(@, t),
                     !.waiters = IF @ = <<>> THEN @ ELSE Tail(@)],
     s |-> IF b.waiters = <<>> THEN s ELSE sched_unblock_task(s, Head(b.waiters))]

\* init_compositor(config)
InitCompositor ==
    /\ GfxAt(InitialTask, "boot") /\ ~compositor.inited
    /\ compositor' = Compositor_new
    /\ vecs' = Append(vecs, <<>>)
    /\ gfx_op' = GfxOp("init_compositor", InitialTask, 0, TRUE)
    /\ UNCHANGED <<vis_mode, wbuf, gt, shadow, hw_fb, sched, cpu, sch_op>>
    /\ UNCHANGED outsideGfx

\* the tasks are added and the scheduler takes over; tasks run with interrupts
\* enabled
StartScheduler ==
    /\ GfxAt(InitialTask, "boot") /\ compositor.inited
    /\ \E order \in HeapOrders({[deadline |-> 0, id |-> t] : t \in SchedTasks}) :
           sched' = schedule([sched EXCEPT !.state[InitialTask] = "Running",
                                           !.ready = order, !.current = InitialTask])
    /\ cpu' = CpuRunning
    /\ gt' = [t \in AllTasks |->
                 [gt[t] EXCEPT !.pc = IF t = InitialTask THEN "idle"
                                      ELSE IF t = CompositorTask THEN "frame"
                                      ELSE "register"]]
    /\ gfx_op' = GfxOp("start", InitialTask, 0, TRUE)
    /\ UNCHANGED <<vis_mode, compositor, vecs, wbuf, shadow, hw_fb, sch_op>>
    /\ UNCHANGED outsideGfx

\* register_writer(region): cli, COMPOSITOR.lock(), the registration if the
\* compositor is there, and the flags restored; with visualize-pipeline the
\* owner is set next
RegisterWriter(t) ==
    /\ GfxAt(t, "boot") \/ GfxAt(t, "register")
    /\ Len(wbuf) < IF t = InitialTask THEN MaxBuffers - Cardinality(WriterTasks)
                   ELSE MaxBuffers
    /\ IF compositor.inited
       THEN LET r == Compositor_register_writer(compositor, vecs, wbuf, WriterRegion[t])
            IN  /\ compositor' = r.c
                /\ vecs' = r.vs
                /\ wbuf' = IF vis_mode /\ t = InitialTask
                           THEN [r.wb EXCEPT ![r.buffer].owner_task_id = t] ELSE r.wb
                /\ gt' = [gt EXCEPT ![t].buffer = IF t = InitialTask THEN @ ELSE r.buffer,
                                    ![t].pc = IF t = InitialTask THEN @
                                              ELSE IF vis_mode THEN "set_owner"
                                              ELSE "write"]
                /\ gfx_op' = GfxOp("register_writer", t, r.buffer, TRUE)
       ELSE /\ UNCHANGED <<compositor, vecs, wbuf, gt>>
            /\ gfx_op' = GfxOp("register_writer", t, 0, FALSE)
    /\ cpu' = [cpu EXCEPT !.rflags_if = register_writer_restore(cpu.rflags_if)]
    /\ UNCHANGED <<vis_mode, shadow, hw_fb, sched, sch_op>>
    /\ UNCHANGED outsideGfx

\* the end of register_writer with visualize-pipeline: the owner is set if
\* try_lock gets the buffer
WriterSetOwner(t) ==
    /\ GfxAt(t, "set_owner")
    /\ LET r == mtx_try_lock(wbuf[gt[t].buffer].lock, t)
       IN  /\ wbuf' = IF r.ok THEN [wbuf EXCEPT ![gt[t].buffer].owner_task_id = t] ELSE wbuf
           /\ gfx_op' = GfxOp("set_owner", t, gt[t].buffer, r.ok)
    /\ gt' = [gt EXCEPT ![t].pc = "write"]
    /\ UNCHANGED <<vis_mode, compositor, vecs, shadow, hw_fb, sched, cpu, sch_op>>
    /\ UNCHANGED outsideGfx

\* the writer's buffer.lock(): the lock is taken when it is free; otherwise the
\* task waits on the mutex's queue and tries again when it runs next
WriterLock(t) ==
    /\ GfxAt(t, "write")
    /\ LET i == gt[t].buffer
           r == mtx_try_lock(wbuf[i].lock, t)
       IN  /\ wbuf' = IF r.ok THEN [wbuf EXCEPT ![i].lock = r.m]
                      ELSE [wbuf EXCEPT ![i].waiters = Append(@, t)]
           /\ sched' = IF r.ok THEN sched ELSE sched_block_current_task(sched)
           /\ gt' = [gt EXCEPT ![t].pc = IF r.ok THEN "push" ELSE "write",
                               ![t].cmd_idx = IF r.ok THEN 0 ELSE @]
           /\ gfx_op' = GfxOp("lock", t, i, r.ok)
    /\ UNCHANGED <<vis_mode, compositor, vecs, shadow, hw_fb, cpu, sch_op>>
    /\ UNCHANGED outsideGfx

\* the writer publishes a command under the lock
WriterPush(t, cmd) ==
    /\ GfxAt(t, "push")
    /\ Len(wbuf[gt[t].buffer].commands) < IF vis_mode THEN MaxSyncCommands ELSE MaxCommands
    /\ wbuf' = [wbuf EXCEPT ![gt[t].buffer] = push_command(@, cmd)]
    /\ gt' = [gt EXCEPT ![t].cmd_idx = 1]
    /\ gfx_op' = GfxOp("push_command", t, gt[t].buffer, TRUE)
    /\ UNCHANGED <<vis_mode, compositor, vecs, shadow, hw_fb, sched, cpu, sch_op>>
    /\ UNCHANGED outsideGfx

\* the writer's guard is dropped; with visualize-pipeline sync_flush comes next
WriterUnlock(t) ==
    /\ GfxAt(t, "push")
    /\ LET i == gt[t].buffer
           r == buffer_unlock(wbuf[i], sched, t)
       IN  /\ wbuf' = [wbuf EXCEPT ![i] = r.b]
           /\ sched' = r.s
           /\ gfx_op' = GfxOp("unlock", t, i, TRUE)
    /\ gt' = [gt EXCEPT ![t].pc = IF vis_mode THEN "sync_flush" ELSE "write"]
    /\ UNCHANGED <<vis_mode, compositor, vecs, shadow, hw_fb, cpu, sch_op>>
    /\ UNCHANGED outsideGfx

\* sync_flush(): block_current_task()
WriterSyncFlush(t) ==
    /\ GfxAt(t, "sync_flush")
    /\ sched' = sched_block_current_task(sched)
    /\ gt' = [gt EXCEPT ![t].pc = "write"]
    /\ gfx_op' = GfxOp("sync_flush", t, gt[t].buffer, TRUE)
    /\ UNCHANGED <<vis_mode, compositor, vecs, wbuf, shadow, hw_fb, cpu, sch_op>>
    /\ UNCHANGED outsideGfx

\* the timer interrupt while the pipeline runs: a task that is on the CPU takes
\* at least one step from one tick to the next, the initial task idles; the
\* tick may bring a deadline that is further away within the horizon
GfxTimerTick(preempt, nearer) ==
    /\ cpu.rflags_if /\ cpu.halted = NoVector /\ sched.current # NoTask
    /\ gfx_op.kind # "timer" \/ sched.current = InitialTask
    /\ nearer \/ \E e \in sched.sleeping : e.deadline - sched.tick > SleepHorizon
    /\ \E s1 \in timer_handler_inner(IF nearer THEN sched ELSE Further(sched)) :
           sched' = Rebase(IF preempt THEN schedule(s1) ELSE s1)
    /\ gfx_op' = GfxOp("timer", NoTask, 0, preempt)
    /\ UNCHANGED <<vis_mode, compositor, vecs, wbuf, gt, shadow, hw_fb, cpu, sch_op>>
    /\ UNCHANGED outsideGfx

\* the buffer the compositor is at in its snapshot
BufferAt(l) == vecs[l.buffers_snapshot][l.buffer_idx]

\* a record of buffer i with the commands cs in a set that has one per buffer
Noted(set, i, cs) == {e \in set : e.buffer # i} \cup {[buffer |-> i, commands |-> cs]}
Forgotten(set, i) == {e \in set : e.buffer # i}

\* Phase 1 of a frame: the snapshot of the buffer list under cli; without a
\* compositor the task sleeps for 16 ms and tries again
CompositorSnapshot ==
    /\ GfxAt(CompositorTask, "frame")
    /\ IF compositor.inited
       THEN /\ gt' = [gt EXCEPT ![CompositorTask].buffers_snapshot = compositor.buffers,
                                ![CompositorTask].snapshot_held = vecs[compositor.buffers],
                                ![CompositorTask].buffer_idx = 1,
                                ![CompositorTask].consumed = {},
                                ![CompositorTask].pc = "visit"]
            /\ UNCHANGED sched
       ELSE /\ sched' = sched_sleep_ms(sched, 16, frequency_hz)
            /\ UNCHANGED gt
    /\ gfx_op' = GfxOp("snapshot", CompositorTask, 0, compositor.inited)
    /\ UNCHANGED <<vis_mode, compositor, vecs, wbuf, shadow, hw_fb, cpu, sch_op>>
    /\ UNCHANGED outsideGfx

\* the loop over the snapshot with a lock() in place of the try_lock()
CompositorVisit_Blocks ==
    /\ GfxAt(CompositorTask, "visit")
    /\ gt[CompositorTask].buffer_idx <= Len(vecs[gt[CompositorTask].buffers_snapshot])
    /\ LET l == gt[CompositorTask]
           i == BufferAt(l)
           r == mtx_try_lock(wbuf[i].lock, CompositorTask)
       IN  /\ wbuf' = IF r.ok THEN [wbuf EXCEPT ![i].lock = r.m]
                      ELSE [wbuf EXCEPT ![i].waiters = Append(@, CompositorTask)]
           /\ sched' = IF r.ok THEN sched ELSE sched_block_current_task(sched)
           /\ gt' = [gt EXCEPT ![CompositorTask].pc = IF r.ok THEN "locked" ELSE "visit"]
           /\ gfx_op' = GfxOp("try_lock", CompositorTask, i, r.ok)
    /\ UNCHANGED <<vis_mode, compositor, vecs, shadow, hw_fb, cpu, sch_op>>
    /\ UNCHANGED outsideGfx

\* the loop over the snapshot: buffer.try_lock(); a buffer that is locked is
\* passed over
CompositorVisit ==
    /\ GfxAt(CompositorTask, "visit")
    /\ gt[CompositorTask].buffer_idx <= Len(vecs[gt[CompositorTask].buffers_snapshot])
    /\ LET l == gt[CompositorTask]
           i == BufferAt(l)
           r == mtx_try_lock(wbuf[i].lock, CompositorTask)
       IN  /\ wbuf' = [wbuf EXCEPT ![i].lock = r.m]
           /\ gt' = [gt EXCEPT ![CompositorTask].pc = IF r.ok THEN "locked" ELSE "visit",
                               ![CompositorTask].buffer_idx = IF r.ok THEN @ ELSE @ + 1,
                               ![CompositorTask].missed =
                                   IF ~r.ok /\ wbuf[i].dirty
                                   THEN Noted(@, i, wbuf[i].commands) ELSE @]
           /\ gfx_op' = GfxOp("try_lock", CompositorTask, i, r.ok)
    /\ UNCHANGED <<vis_mode, compositor, vecs, shadow, hw_fb, sched, cpu, sch_op>>
    /\ UNCHANGED outsideGfx

\* is_dirty() is false: the guard is dropped, the next buffer follows
CompositorSkipClean ==
    /\ GfxAt(CompositorTask, "locked")
    /\ LET l == gt[CompositorTask]
           i == BufferAt(l)
           r == buffer_unlock(wbuf[i], sched, CompositorTask)
       IN  /\ ~wbuf[i].dirty
           /\ wbuf' = [wbuf EXCEPT ![i] = r.b]
           /\ sched' = r.s
           /\ gfx_op' = GfxOp("skip", CompositorTask, i, TRUE)
    /\ gt' = [gt EXCEPT ![CompositorTask].pc = "visit", ![CompositorTask].buffer_idx = @ + 1]
    /\ UNCHANGED <<vis_mode, compositor, vecs, shadow, hw_fb, cpu, sch_op>>
    /\ UNCHANGED outsideGfx

\* a dirty buffer in the normal mode: render_commands_to the shadow buffer,
\* under the buffer's lock
CompositorRender ==
    /\ GfxAt(CompositorTask, "locked") /\ ~vis_mode
    /\ LET l == gt[CompositorTask]
           i == BufferAt(l)
       IN  /\ wbuf[i].dirty
           /\ shadow' = render_commands_to(shadow, wbuf[i].region, wbuf[i].commands)
           /\ gt' = [gt EXCEPT ![CompositorTask].pc = "clear",
                               ![CompositorTask].commands_copy = wbuf[i].commands,
                               ![CompositorTask].dirty_rect =
                                   render_commands_dirty(@, wbuf[i].region, wbuf[i].commands)]
           /\ gfx_op' = GfxOp("render", CompositorTask, i, TRUE)
    /\ UNCHANGED <<vis_mode, compositor, vecs, wbuf, hw_fb, sched, cpu, sch_op>>
    /\ UNCHANGED outsideGfx

\* after the rendering: owner_id, clear_commands(), the guard is dropped, and
\* the owner is unblocked if there is one
CompositorClear ==
    /\ GfxAt(CompositorTask, "clear")
    /\ LET l == gt[CompositorTask]
           i == BufferAt(l)
           owner_id == IF vis_mode THEN wbuf[i].owner_task_id ELSE NoTask
           r == buffer_unlock(clear_commands(wbuf[i]), sched, CompositorTask)
       IN  /\ wbuf' = [wbuf EXCEPT ![i] = r.b]
           /\ sched' = IF owner_id # NoTask THEN sched_unblock_task(r.s, owner_id) ELSE r.s
           /\ gt' = [gt EXCEPT ![CompositorTask].pc = "visit",
                               ![CompositorTask].buffer_idx = @ + 1,
                               ![CompositorTask].commands_copy = <<>>,
                               ![CompositorTask].consumed = Noted(@, i, l.commands_copy),
                               ![CompositorTask].missed = Forgotten(@, i)]
           /\ gfx_op' = GfxOp("clear", CompositorTask, i, TRUE)
    /\ UNCHANGED <<vis_mode, compositor, vecs, shadow, hw_fb, cpu, sch_op>>
    /\ UNCHANGED outsideGfx

\* the snapshot is through
CompositorVisited ==
    /\ GfxAt(CompositorTask, "visit")
    /\ gt[CompositorTask].buffer_idx > Len(vecs[gt[CompositorTask].buffers_snapshot])
    /\ gt' = [gt EXCEPT ![CompositorTask].pc = "blit"]
    /\ gfx_op' = GfxOp("visited", CompositorTask, 0, TRUE)
    /\ UNCHANGED <<vis_mode, compositor, vecs, wbuf, shadow, hw_fb, sched, cpu, sch_op>>
    /\ UNCHANGED outsideGfx

\* Phase 4 in the normal mode: the shadow buffer goes to the hardware frame
\* buffer
CompositorBlit ==
    /\ GfxAt(CompositorTask, "blit") /\ ~vis_mode
    /\ hw_fb' = blit_to(shadow, hw_fb)
    /\ gt' = [gt EXCEPT ![CompositorTask].pc = "sleep"]
    /\ gfx_op' = GfxOp("blit", CompositorTask, 0, TRUE)
    /\ UNCHANGED <<vis_mode, compositor, vecs, wbuf, shadow, sched, cpu, sch_op>>
    /\ UNCHANGED outsideGfx

\* the end of the frame: sleep_ms(16)
CompositorSleep ==
    /\ GfxAt(CompositorTask, "sleep")
    /\ sched' = sched_sleep_ms(sched, 16, frequency_hz)
    /\ gt' = [gt EXCEPT ![CompositorTask].pc = "frame"]
    /\ gfx_op' = GfxOp("sleep_ms", CompositorTask, 0, TRUE)
    /\ UNCHANGED <<vis_mode, compositor, vecs, wbuf, shadow, hw_fb, cpu, sch_op>>
    /\ UNCHANGED outsideGfx

\* a dirty buffer in the visualization mode: the commands are copied and the
\* guard is dropped
CompositorVisCopy ==
    /\ GfxAt(CompositorTask, "locked") /\ vis_mode
    /\ LET l == gt[CompositorTask]
           i == BufferAt(l)
           r == buffer_unlock(wbuf[i], sched, CompositorTask)
       IN  /\ wbuf[i].dirty
           /\ wbuf' = [wbuf EXCEPT ![i] = r.b]
           /\ sched' = r.s
           /\ gt' = [gt EXCEPT ![CompositorTask].pc = "vis_copy",
                               ![CompositorTask].commands_copy = wbuf[i].commands]
           /\ gfx_op' = GfxOp("copy", CompositorTask, i, TRUE)
    /\ UNCHANGED <<vis_mode, compositor, vecs, shadow, hw_fb, cpu, sch_op>>
    /\ UNCHANGED outsideGfx

\* the wait for the copy animation, which the visualization task ends at some
\* time: sleep_ms(16) while it runs; when it is over the sleep_ms(500) before
\* the commands
CompositorVisAnimation(copy_done) ==
    /\ GfxAt(CompositorTask, "vis_copy")
    /\ sched' = sched_sleep_ms(sched, IF copy_done THEN 500 ELSE 16, frequency_hz)
    /\ gt' = [gt EXCEPT ![CompositorTask].pc = IF copy_done THEN "vis_cmd" ELSE "vis_copy",
                        ![CompositorTask].cmd_idx = IF copy_done THEN 1 ELSE @]
    /\ gfx_op' = GfxOp("animation", CompositorTask, BufferAt(gt[CompositorTask]), copy_done)
    /\ UNCHANGED <<vis_mode, compositor, vecs, wbuf, shadow, hw_fb, cpu, sch_op>>
    /\ UNCHANGED outsideGfx

\* one command of the copy: it is rendered to the mini shadow buffer of the
\* visualization, then sleep_ms(500)
CompositorVisCommand ==
    /\ GfxAt(CompositorTask, "vis_cmd")
    /\ gt[CompositorTask].cmd_idx <= Len(gt[CompositorTask].commands_copy)
    /\ sched' = sched_sleep_ms(sched, 500, frequency_hz)
    /\ gt' = [gt EXCEPT ![CompositorTask].cmd_idx = @ + 1]
    /\ gfx_op' = GfxOp("render_mini", CompositorTask, BufferAt(gt[CompositorTask]), TRUE)
    /\ UNCHANGED <<vis_mode, compositor, vecs, wbuf, shadow, hw_fb, cpu, sch_op>>
    /\ UNCHANGED outsideGfx

\* after the commands: buffer.try_lock(); with the lock the commands are
\* cleared, the guard is dropped and the owner is unblocked if there is one
CompositorVisClear ==
    /\ GfxAt(CompositorTask, "vis_cmd")
    /\ gt[CompositorTask].cmd_idx > Len(gt[CompositorTask].commands_copy)
    /\ LET l == gt[CompositorTask]
           i == BufferAt(l)
           t == mtx_try_lock(wbuf[i].lock, CompositorTask)
           owner_id == wbuf[i].owner_task_id
           r == buffer_unlock(clear_commands([wbuf[i] EXCEPT !.lock = t.m]), sched,
                              CompositorTask)
       IN  /\ wbuf' = IF t.ok THEN [wbuf EXCEPT ![i] = r.b] ELSE wbuf
           /\ sched' = IF ~t.ok THEN sched
                       ELSE IF owner_id # NoTask THEN sched_unblock_task(r.s, owner_id)
                       ELSE r.s
           /\ gt' = [gt EXCEPT ![CompositorTask].pc = "visit",
                               ![CompositorTask].buffer_idx = @ + 1,
                               ![CompositorTask].commands_copy = <<>>,
                               ![CompositorTask].missed = IF t.ok THEN Forgotten(@, i) ELSE @]
           /\ gfx_op' = GfxOp("vis_clear", CompositorTask, i, t.ok)
    /\ UNCHANGED <<vis_mode, compositor, vecs, shadow, hw_fb, cpu, sch_op>>
    /\ UNCHANGED outsideGfx

\* the wait for the blit animation in the visualization mode: sleep_ms(16)
\* while it runs; nothing is copied to the hardware frame buffer
CompositorVisBlit(blit_done) ==
    /\ GfxAt(CompositorTask, "blit") /\ vis_mode
    /\ sched' = IF blit_done THEN sched ELSE sched_sleep_ms(sched, 16, frequency_hz)
    /\ gt' = [gt EXCEPT ![CompositorTask].pc = IF blit_done THEN "sleep" ELSE "blit"]
    /\ gfx_op' = GfxOp("blit_animation", CompositorTask, 0, blit_done)
    /\ UNCHANGED <<vis_mode, compositor, vecs, wbuf, shadow, hw_fb, cpu, sch_op>>
    /\ UNCHANGED outsideGfx

\* the pipeline of the normal build
GfxNext ==
    \/ InitCompositor
    \/ StartScheduler
    \/ \E t \in WriterTasks \cup {InitialTask} : RegisterWriter(t)
    \/ \E t \in WriterTasks : WriterLock(t)
    \/ \E t \in WriterTasks : \E cmd \in WriterCommands[t] : WriterPush(t, cmd)
    \/ \E t \in WriterTasks : WriterUnlock(t)
    \/ \E preempt \in BOOLEAN, nearer \in BOOLEAN : GfxTimerTick(preempt, nearer)
    \/ CompositorSnapshot
    \/ CompositorVisit
    \/ CompositorSkipClean
    \/ CompositorRender
    \/ CompositorClear
    \/ CompositorVisited
    \/ CompositorBlit
    \/ CompositorSleep

\* the pipeline with visualize-pipeline, the visualization started
GfxVisNext ==
    \/ InitCompositor
    \/ StartScheduler
    \/ \E t \in WriterTasks \cup {InitialTask} : RegisterWriter(t)
    \/ \E t \in WriterTasks : WriterSetOwner(t)
    \/ \E t \in WriterTasks : WriterLock(t)
    \/ \E t \in WriterTasks : \E cmd \in WriterCommands[t] : WriterPush(t, cmd)
    \/ \E t \in WriterTasks : WriterUnlock(t)
    \/ \E t \in WriterTasks : WriterSyncFlush(t)
    \/ \E preempt \in BOOLEAN, nearer \in BOOLEAN : GfxTimerTick(preempt, nearer)
    \/ CompositorSnapshot
    \/ CompositorVisit
    \/ CompositorSkipClean
    \/ CompositorVisCopy
    \/ \E copy_done \in BOOLEAN : CompositorVisAnimation(copy_done)
    \/ CompositorVisCommand
    \/ CompositorVisClear
    \/ CompositorVisited
    \/ \E blit_done \in BOOLEAN : CompositorVisBlit(blit_done)
    \/ CompositorSleep

(***************************************************************************)
(* The MMIO range table by itself: extract_mmio_regions builds it from a   *)
(* memory map, is_mmio_region_binary looks an address up in it.            *)
(***************************************************************************)
\* a memory map of n one-page MMIO regions in descending order below page top
DescendingMmio(top, n) ==
    [i \in 1 .. n |-> [start |-> (top - i) * PAGE_SIZE, size |-> PAGE_SIZE,
                       type |-> EFI_MEMORY_MAPPED_IO]]

\* memory maps the boot loader can hand over: without MMIO, with regions in
\* any order, adjacent, of both MMIO types, with more regions than the table
\* holds, and with regions that overlap
MmioMemoryMaps ==
    MemoryMaps \cup
    {<<>>,
     <<[start |-> 44 * PAGE_SIZE, size |-> PAGE_SIZE, type |-> EFI_MEMORY_MAPPED_IO],
       [start |-> 45 * PAGE_SIZE, size |-> 2048, type |-> EFI_MEMORY_MAPPED_IO_PORT_SPACE],
       [start |-> 42 * PAGE_SIZE, size |-> PAGE_SIZE, type |-> EFI_MEMORY_MAPPED_IO]>>,
     <<[start |-> 40 * PAGE_SIZE, size |-> 0, type |-> EFI_MEMORY_MAPPED_IO],
       [start |-> 0, size |-> 40 * PAGE_SIZE, type |-> EFI_CONVENTIONAL_MEMORY]>>,
     DescendingMmio(200, 64),
     DescendingMmio(200, 65),
     <<[start |-> 40 * PAGE_SIZE, size |-> 8 * PAGE_SIZE, type |-> EFI_MEMORY_MAPPED_IO],
       [start |-> 42 * PAGE_SIZE, size |-> PAGE_SIZE, type |-> EFI_MEMORY_MAPPED_IO]>>}

\* the addresses looked up: page starts and addresses inside pages, in, between
\* and around the regions of the maps
MmioProbes ==
    {p * PAGE_SIZE + off : p \in {0, 39, 40, 41, 42, 43, 44, 45, 46, 47, 48, 135, 136, 199,
                                  200, 512, 513},
                           off \in {0, 2048, PAGE_SIZE - 1}}

NoLookup == [phys_addr |-> 0, result |-> FALSE, done |-> FALSE]

\* nothing has been extracted
MmioIdle == mmio_tab = [memory_map |-> <<>>, mmio_ranges |-> <<>>, built |-> FALSE,
                    lookup |-> NoLookup]

MmioBoot(m) == mmio_tab = [memory_map |-> m, mmio_ranges |-> <<>>, built |-> FALSE,
                       lookup |-> NoLookup]

\* init builds the table once
ExtractMmioRegions ==
    /\ ~mmio_tab.built
    /\ mmio_tab' = [mmio_tab EXCEPT !.mmio_ranges = extract_mmio_regions(mmio_tab.memory_map),
                            !.built = TRUE]
    /\ UNCHANGED outsideMmio

\* a lookup in the table
IsMmio(phys_addr) ==
    /\ mmio_tab.built
    /\ mmio_tab' = [mmio_tab EXCEPT !.lookup =
                    [phys_addr |-> phys_addr,
                     result |-> is_mmio_region_binary(phys_addr, mmio_tab.mmio_ranges),
                     done |-> TRUE]]
    /\ UNCHANGED outsideMmio

MmioNext ==
    \/ ExtractMmioRegions
    \/ \E phys_addr \in MmioProbes : IsMmio(phys_addr)

InitPaging ==
    (\E b \in BootInfos : PagingBoot(b)) /\ HeapIdle /\ AddrIdle /\ IrqIdle /\ SchedIdle /\ BuddyIdle
    /\ GfxIdle /\ MmioIdle

SpecPaging == InitPaging /\ [][PagingNext]_vars

InitMmio ==
    (\E m \in MmioMemoryMaps : MmioBoot(m)) /\ HeapIdle /\ AddrIdle /\ PagingIdle /\ IrqIdle
    /\ SchedIdle /\ BuddyIdle /\ GfxIdle

SpecMmio == InitMmio /\ [][MmioNext]_vars

InitAddr == AddrIdle /\ HeapIdle /\ PagingIdle /\ IrqIdle /\ SchedIdle /\ BuddyIdle /\ GfxIdle /\ MmioIdle

SpecAddr == InitAddr /\ [][AddrNext]_vars

InitHeap == HeapInitState /\ AddrIdle /\ PagingIdle /\ IrqIdle /\ SchedIdle /\ BuddyIdle /\ GfxIdle /\ MmioIdle

InitIrq == InitHeap /\ heap_cfg = [start |-> 256 * 4096, size |-> 24 * 1024]

SpecIrq == InitIrq /\ [][IrqNext]_vars

SpecHeap == InitHeap /\ [][HeapNext]_vars

InitSched == SchedStart /\ HeapIdle /\ AddrIdle /\ PagingIdle /\ IrqIdle /\ BuddyIdle /\ GfxIdle /\ MmioIdle

SpecSched == InitSched /\ [][SchedNext]_vars

InitSync == InitSched /\ frequency_hz = 100

SpecWq == InitSync /\ [][WqNext]_vars

SpecMutex == InitSync /\ [][MutexNext]_vars

\* the timer interrupt while no task sleeps: check_timers moves nothing, and the
\* running task is pre-empted on the way out; the tick count, which the wait
\* queue never reads, is left out
WqPreempt ==
    /\ cpu.rflags_if /\ cpu.halted = NoVector
    /\ LET s2 == schedule(sched)
       IN  /\ sched' = s2
           /\ tcx' = Dispatched(tcx, s2)
    /\ sch_op' = [SchedOp("timer", NoTask, NoTask, TRUE) EXCEPT !.yield = TRUE]
    /\ UNCHANGED <<frequency_hz, wq, mtx, cpu>>
    /\ UNCHANGED outsideSched

\* the tasks that share the queue: those of the lowest nice, which the
\* scheduler runs in turn
WqPeers == {t \in SchedTasks : \A u \in SchedTasks : nice[t] <= nice[u]}

\* tasks that call wait, wake_one and wake_all on one queue and nothing else,
\* pre-empted by the timer at any point where interrupts are enabled
WqFairNext ==
    \/ WqPreempt
    \/ \E t \in WqPeers : WqPush(t, "wq")
    \/ \E t \in WqPeers : WqBlock(t)
    \/ \E t \in WqPeers, all \in BOOLEAN : WqPop(t, "wq", all)
    \/ \E t \in WqPeers : WqUnblock(t)

\* the steps of a call of wait, wake_one or wake_all that is under way
WqCallStep(t) == WqBlock(t) \/ WqUnblock(t) \/ (tcx[t].pc = "wake_again" /\ WqPop(t, "wq", TRUE))

\* the timer keeps interrupting, and a task that is on the CPU again and again
\* goes on with the call it is in; a task between calls need not call anything
FairWq ==
    /\ WF_vars(WqPreempt)
    /\ \A t \in SchedTasks : SF_vars(WqCallStep(t))

SpecWqFair == InitSync /\ [][WqFairNext]_vars /\ FairWq

InitBuddy == BuddyStart /\ HeapIdle /\ AddrIdle /\ PagingIdle /\ IrqIdle /\ SchedIdle /\ GfxIdle /\ MmioIdle

SpecBuddy == InitBuddy /\ [][BuddyNext]_vars

InitGfx == GfxStart(FALSE) /\ HeapIdle /\ AddrIdle /\ PagingIdle /\ IrqIdle /\ BuddyIdle
    /\ MmioIdle

SpecGfx == InitGfx /\ [][GfxNext]_vars

\* the calls on one WriterBuffer, by whoever holds its lock
MaxBufferCommands == 4
ExtendSlices == UNION {[1 .. n -> WriterCommands.b] : n \in 0 .. 2}

\* WriterBuffer::new(region)
BufferNew(region) ==
    /\ wbuf = <<>>
    /\ wbuf' = <<WriterBuffer_new(region)>>
    /\ gfx_op' = GfxOp("new", NoTask, 1, TRUE)
    /\ UNCHANGED <<vis_mode, compositor, vecs, gt, shadow, hw_fb, sched, cpu, sch_op>>
    /\ UNCHANGED outsideGfx

BufferPush(cmd) ==
    /\ wbuf # <<>> /\ Len(wbuf[1].commands) < MaxBufferCommands
    /\ wbuf' = [wbuf EXCEPT ![1] = push_command(@, cmd)]
    /\ gfx_op' = GfxOp("push_command", NoTask, 1, TRUE)
    /\ UNCHANGED <<vis_mode, compositor, vecs, gt, shadow, hw_fb, sched, cpu, sch_op>>
    /\ UNCHANGED outsideGfx

BufferExtend(commands) ==
    /\ wbuf # <<>> /\ Len(wbuf[1].commands) + Len(commands) <= MaxBufferCommands
    /\ wbuf' = [wbuf EXCEPT ![1] = extend_commands(@, commands)]
    /\ gfx_op' = GfxOp("extend_commands", NoTask, 1, commands # <<>>)
    /\ UNCHANGED <<vis_mode, compositor, vecs, gt, shadow, hw_fb, sched, cpu, sch_op>>
    /\ UNCHANGED outsideGfx

BufferClear ==
    /\ wbuf # <<>>
    /\ wbuf' = [wbuf EXCEPT ![1] = clear_commands(@)]
    /\ gfx_op' = GfxOp("clear_commands", NoTask, 1, TRUE)
    /\ UNCHANGED <<vis_mode, compositor, vecs, gt, shadow, hw_fb, sched, cpu, sch_op>>
    /\ UNCHANGED outsideGfx

BufferNext ==
    \/ \E region \in {WriterRegion.b, WriterRegion.c} : BufferNew(region)
    \/ \E cmd \in WriterCommands.b : BufferPush(cmd)
    \/ \E commands \in ExtendSlices : BufferExtend(commands)
    \/ BufferClear

\* one WriterBuffer under the calls of its interface
SpecBuffer == InitGfx /\ [][BufferNext]_vars

\* the regions and commands render_commands_to is called with
RenderRegions == {Region(0, 0, 80, 8), Region(80, 0, 80, 8), Region(16, 8, 32, 16)}
RenderCommands ==
    {DrawCommand("Clear", 0, 0, 0, 0, <<>>, Colour.blue),
     DrawCommand("DrawChar", 8, 0, 0, 0, <<"x">>, Colour.blue),
     DrawCommand("DrawChar", 24, 8, 0, 0, <<"y">>, Colour.white),
     DrawCommand("DrawString", 0, 0, 0, 0, Hello, Colour.white),
     DrawCommand("DrawString", 4, 4, 0, 0, <<>>, Colour.white),
     DrawCommand("FillRect", 0, 0, 16, 8, <<>>, Colour.white),
     DrawCommand("FillRect", 40, 2, 8, 3, <<>>, Colour.blue),
     DrawCommand("FillRect", 3, 5, 0, 0, <<>>, Colour.blue)}
MaxRenderCommands == 2
MaxRenderCalls == 2
RenderSlices == UNION {[1 .. n -> RenderCommands] : n \in 0 .. MaxRenderCommands}

\* render_commands_to on the compositor's shadow buffer, for a buffer with the
\* region that holds the commands: one of the buffers of a frame
RenderCall(region, commands) ==
    /\ gt[CompositorTask].buffer_idx < MaxRenderCalls
    /\ wbuf' = <<[WriterBuffer_new(region) EXCEPT !.commands = commands,
                                                  !.dirty = commands # <<>>]>>
    /\ shadow' = render_commands_to(shadow, region, commands)
    /\ gt' = [gt EXCEPT ![CompositorTask].commands_copy = commands,
                        ![CompositorTask].buffer_idx = @ + 1,
                        ![CompositorTask].dirty_rect =
                            render_commands_dirty(@, region, commands)]
    /\ gfx_op' = GfxOp("render", CompositorTask, 1, TRUE)
    /\ UNCHANGED <<vis_mode, compositor, vecs, hw_fb, sched, cpu, sch_op>>
    /\ UNCHANGED outsideGfx

RenderNext == \E region \in RenderRegions, commands \in RenderSlices : RenderCall(region, commands)

\* render_commands_to alone, on a shadow buffer that starts clean
SpecRender == InitGfx /\ [][RenderNext]_vars

InitGfxVis == GfxStart(TRUE) /\ HeapIdle /\ AddrIdle /\ PagingIdle /\ IrqIdle /\ BuddyIdle
    /\ MmioIdle

SpecGfxVis == InitGfxVis /\ [][GfxVisNext]_vars

\* a step of the writer, and a step of the compositor in which an animation of
\* the visualization, if it waits for one, has come to its end
WriterStep(t) ==
    \/ RegisterWriter(t) \/ WriterSetOwner(t) \/ WriterLock(t) \/ WriterUnlock(t)
    \/ WriterSyncFlush(t)
CompositorStep ==
    \/ CompositorSnapshot \/ CompositorVisit \/ CompositorSkipClean \/ CompositorVisCopy
    \/ CompositorVisAnimation(TRUE) \/ CompositorVisCommand \/ CompositorVisClear
    \/ CompositorVisited \/ CompositorVisBlit(TRUE) \/ CompositorSleep

\* a task that is on the CPU again and again takes its next step; the timer
\* keeps ticking and brings every deadline; the animations of the visualization
\* come to an end
FairGfxVis ==
    /\ WF_vars(InitCompositor \/ StartScheduler)
    /\ \A t \in WriterTasks : SF_vars(WriterStep(t))
    /\ SF_vars(CompositorStep)
    /\ WF_vars(\E preempt \in BOOLEAN : GfxTimerTick(preempt, TRUE))

SpecGfxVisFair == SpecGfxVis /\ FairGfxVis

\* debug_overlay.rs
UPDATE_INTERVAL_MS == 1000

\* the task that runs debug_overlay_task
OverlayTask == "b"

\* debug_overlay_task at the end of its loop, where a demo task calls
\* sync_flush: the commands are in the buffer, the guard is dropped, and the
\* task sleeps for a second without waiting for the compositor
WriterOverlaySleep(t) ==
    /\ GfxAt(t, "sync_flush") /\ t = OverlayTask
    /\ sched' = sched_sleep_ms(sched, UPDATE_INTERVAL_MS, frequency_hz)
    /\ gt' = [gt EXCEPT ![t].pc = "write"]
    /\ gfx_op' = GfxOp("sleep_ms", t, gt[t].buffer, TRUE)
    /\ UNCHANGED <<vis_mode, compositor, vecs, wbuf, shadow, hw_fb, cpu, sch_op>>
    /\ UNCHANGED outsideGfx

\* the pipeline with visualize-pipeline, the visualization started, the demo
\* tasks and debug_overlay_task as writers
GfxVisOverlayNext ==
    \/ InitCompositor
    \/ StartScheduler
    \/ \E t \in WriterTasks \cup {InitialTask} : RegisterWriter(t)
    \/ \E t \in WriterTasks : WriterSetOwner(t)
    \/ \E t \in WriterTasks : WriterLock(t)
    \/ \E t \in WriterTasks : \E cmd \in WriterCommands[t] : WriterPush(t, cmd)
    \/ \E t \in WriterTasks : WriterUnlock(t)
    \/ \E t \in WriterTasks \ {OverlayTask} : WriterSyncFlush(t)
    \/ WriterOverlaySleep(OverlayTask)
    \/ \E preempt \in BOOLEAN, nearer \in BOOLEAN : GfxTimerTick(preempt, nearer)
    \/ CompositorSnapshot
    \/ CompositorVisit
    \/ CompositorSkipClean
    \/ CompositorVisCopy
    \/ \E copy_done \in BOOLEAN : CompositorVisAnimation(copy_done)
    \/ CompositorVisCommand
    \/ CompositorVisClear
    \/ CompositorVisited
    \/ \E blit_done \in BOOLEAN : CompositorVisBlit(blit_done)
    \/ CompositorSleep

SpecGfxVisOverlay == InitGfxVis /\ [][GfxVisOverlayNext]_vars

(***************************************************************************)
(* Claims about the heap, checked under SpecHeap                           *)
(***************************************************************************)
BlockBytes(tier, idx) ==
    IF tier = "slab" THEN ClassSize(idx) ELSE order_to_size(idx)

\* C1: whenever alloc returns a non-null pointer, from a slab class or from the
\* buddy tier, the address is a multiple of max(layout.align, 8) and the block
\* holds at least layout.size bytes.
C1_AllocAlignedAndSized ==
    (op.kind = "alloc" /\ op.ptr # NULL) =>
        /\ op.ptr % Max(op.align, 8) = 0
        /\ BlockBytes(op.tier, op.idx) >= op.size

\* C2: once every alloc has been matched by a dealloc with the same layout, the
\* free capacity (slab blocks, buddy bytes) is what it was before the first alloc,
\* also when allocations fell back from an empty slab class to the buddy tier.
C2_CapacityRestored ==
    (heap_inited /\ live = {}) =>
        /\ SlabFreeBlocks(slab) = cap0[1]
        /\ BuddyFreeBytes(buddy) = cap0[2]

\* a matched alloc/dealloc cycle of a small layout that the buddy tier served
C2_Witness ==
    /\ live = {}
    /\ op.kind = "dealloc" /\ op.a_tier = "buddy"
    /\ Max(op.size, op.align) <= 4096

\* C3: a block freed to a slab class is reused first: the next alloc that selects
\* the class returns exactly the pointer the last dealloc pushed onto it.
C3_SlabLifo ==
    (op.kind = "alloc" /\ op.prev_freed # NULL) =>
        (op.tier = "slab" /\ op.ptr = op.prev_freed)

\* an alloc that popped the block freed before it, other calls in between
C3_Witness ==
    /\ op.kind = "alloc" /\ op.prev_freed # NULL /\ op.ptr = op.prev_freed
    /\ \E b \in live : b.ptr # op.ptr

CoveredByFreeBuddyBlock(ptr) ==
    \E o \in Orders : \E i \in 1 .. Len(buddy[o]) :
        buddy[o][i] <= ptr /\ ptr < buddy[o][i] + order_to_size(o)

\* C4: dealloc returns a block to the tier alloc took it from: a pointer inside
\* the buddy region goes to the buddy lists at the order alloc used, any other
\* pointer is pushed onto the slab class it was popped from.
C4_DeallocSameTier ==
    (op.kind = "dealloc") =>
        /\ op.tier = op.a_tier
        /\ op.idx = op.a_idx
        /\ op.tier = "slab" => Head(slab[op.idx]) = op.ptr
        /\ op.tier = "buddy" => CoveredByFreeBuddyBlock(op.ptr)

\* the free of a small block that the buddy tier had served
C4_Witness ==
    /\ op.kind = "dealloc" /\ op.tier = "buddy"
    /\ Max(op.size, op.align) <= 4096

\* C5: alloc returns null and changes no free list whenever the request cannot be
\* satisfied: the buddy order is out of range, or the slab class is empty and no
\* buddy list of sufficient order holds a block.
C5_NullOnExhaustion ==
    (op.kind = "alloc" /\ op.unsat) => (op.ptr = NULL /\ ~op.changed)

\* a small request refused because its slab class and the buddy tier are empty
C5_Witness ==
    /\ op.kind = "alloc" /\ op.unsat /\ op.ptr = NULL
    /\ Max(op.size, op.align) <= 4096

(***************************************************************************)
(* Claims about the address conversion, checked under SpecAddr             *)
(***************************************************************************)
\* C8: for every physical address p > 0 of the 64-bit range,
\* virt_to_phys(phys_to_virt(p)) succeeds and equals p, and the addition of
\* KERNEL_BASE never wraps around silently.
C8_RoundTripAll64 ==
    (conv.fn = "round_trip" /\ conv.arg # U64Zero) =>
        /\ conv.virt.tag = "Ok"
        /\ U64Add(conv.arg, KERNEL_VIRTUAL_BASE).carry = 0
        /\ conv.phys = Ok(conv.arg)

\* C9: phys_to_virt(p) is an error only for p = 0 and is p + KERNEL_BASE
\* otherwise; virt_to_phys(v) is an error for every v < KERNEL_BASE and is
\* v - KERNEL_BASE otherwise.
C9_ConversionResults ==
    /\ conv.fn = "round_trip" =>
          /\ conv.virt.tag = "Err" <=> conv.arg = U64Zero
          /\ conv.arg # U64Zero =>
                /\ conv.virt.tag = "Ok"
                /\ U64Sub(conv.virt.val, conv.arg) = [val |-> KERNEL_VIRTUAL_BASE, borrow |-> 0]
    /\ conv.fn = "virt_to_phys" =>
          IF U64Lt(conv.arg, KERNEL_VIRTUAL_BASE)
          THEN conv.phys.tag = "Err"
          ELSE /\ conv.phys.tag = "Ok"
               /\ U64Add(conv.phys.val, KERNEL_VIRTUAL_BASE) = [val |-> conv.arg, carry |-> 0]


(***************************************************************************)
(* The translation the MMU performs for the higher-half address of a       *)
(* physical address, through the tables CR3 points at.                     *)
(***************************************************************************)
PageOf(phys) == phys \div PAGE_SIZE

\* the PT entry the walk ends at, or the zero entry when a level above is absent
LeafEntry(phys) ==
    LET e4 == EntryAt(pml4, PML4_KERNEL_INDEX)
        e3 == EntryAt(pdp, phys \div GiB)
        e2 == IF is_present(e3)
              THEN EntryAt(pd, <<e3.addr.index, (phys \div PAGE_TABLE_COVERAGE) % PAGE_TABLE_ENTRY_COUNT>>)
              ELSE ZeroEntry
    IN  IF cr3 = TableAddr("PML4", 0) /\ is_present(e4) /\ is_present(e3)
           /\ is_present(e2) /\ ~is_huge_page(e2)
        THEN EntryAt(pt, <<e2.addr.index, PageOf(phys) % PAGE_TABLE_ENTRY_COUNT>>)
        ELSE ZeroEntry

\* the pages a section [start, end) has bytes in
SectionPages(start, end) ==
    {p \in PageOf(start) .. PageOf(end) : p * PAGE_SIZE < end /\ (p + 1) * PAGE_SIZE > start}

PagingInitDone == pg_op.kind = "init" /\ pg_op.res = "Ok"

\* C10: after paging init every PT entry covering a .text page is present,
\* not writable and executable; every entry covering a .rodata page is
\* present, not writable and no-execute; every entry covering a .data/.bss
\* page is present, writable and no-execute.
C10_KernelSectionsWxorX ==
    PagingInitDone =>
        /\ \A p \in SectionPages(boot.kernel.text_start, boot.kernel.text_end) :
               LeafEntry(p * PAGE_SIZE).flags \cap {"Present", "Writable", "NoExecute"}
                   = {"Present"}
        /\ \A p \in SectionPages(boot.kernel.rodata_start, boot.kernel.rodata_end) :
               LeafEntry(p * PAGE_SIZE).flags \cap {"Present", "Writable", "NoExecute"}
                   = {"Present", "NoExecute"}
        /\ \A p \in SectionPages(boot.kernel.data_start, boot.kernel.bss_end) :
               LeafEntry(p * PAGE_SIZE).flags \cap {"Present", "Writable", "NoExecute"}
                   = {"Present", "Writable", "NoExecute"}

\* init has run on an image whose sections end inside a page, whose stack
\* starts the .data range (the page below it is .rodata), and the last pages
\* of all three sections are mapped
C10_Witness ==
    /\ PagingInitDone
    /\ boot.kernel.text_end % PAGE_SIZE # 0
    /\ boot.kernel.rodata_end % PAGE_SIZE # 0
    /\ boot.kernel.bss_end % PAGE_SIZE # 0
    /\ boot.kernel.stack = boot.kernel.data_start
    /\ is_present(LeafEntry(boot.kernel.text_end - 1))
    /\ is_present(LeafEntry(boot.kernel.rodata_end - 1))
    /\ is_present(LeafEntry(boot.kernel.bss_end - 1))

\* C11: after paging init the entry of the 4 KiB page immediately below the
\* kernel stack is not present.
C11_GuardPageNotPresent ==
    PagingInitDone => ~is_present(LeafEntry(boot.kernel.stack - PAGE_SIZE))

(***************************************************************************)
(* Device mappings                                                         *)
(***************************************************************************)
\* the step is a call of the kind, counted by the call number
CallStep(kind) == pg_op'.n = pg_op.n + 1 /\ pg_op'.kind = kind

\* the PT slot of the 4 KiB page holding phys
PtSlot(phys) == <<PageOf(phys) \div PAGE_TABLE_ENTRY_COUNT, PageOf(phys) % PAGE_TABLE_ENTRY_COUNT>>

\* the slots of the ceil(size / 4 KiB) pages from phys on
MmioSlots(phys, size) ==
    {PtSlot(phys + i * PAGE_SIZE) : i \in 0 .. ((size + PAGE_SIZE - 1) \div PAGE_SIZE) - 1}

\* every PT entry outside the slots is the same before and after the step
OtherEntriesKept(slots) ==
    \A k \in ((DOMAIN pt) \cup (DOMAIN pt')) \ slots : EntryAt(pt', k) = EntryAt(pt, k)

\* the step wrote the identity mapping of [phys, phys + size) with the flags
MmioMapped(phys, size, flags) ==
    /\ \A i \in 0 .. ((size + PAGE_SIZE - 1) \div PAGE_SIZE) - 1 :
           EntryAt(pt', PtSlot(phys + i * PAGE_SIZE))
               = [addr |-> phys + i * PAGE_SIZE, flags |-> flags]
    /\ OtherEntriesKept(MmioSlots(phys, size))

\* C12: map_mmio(phys, size) with a 4 KiB aligned phys and interrupts disabled
\* sets exactly the ceil(size / 4 KiB) PT entries from phys on to the identity
\* mapping with Present, Writable, CacheDisable and NoExecute, and returns
\* KERNEL_BASE + phys.
C12_MapMmioStep ==
    (CallStep("map_mmio") /\ ~rflags_if /\ pg_op'.phys % PAGE_SIZE = 0)
        => /\ MmioMapped(pg_op'.phys, pg_op'.size,
                         {"Present", "Writable", "CacheDisable", "NoExecute"})
           /\ pg_op'.virt = Ok(U64Add(U64FromNat(pg_op'.phys), KERNEL_VIRTUAL_BASE).val)
C12_MapMmio == [][C12_MapMmioStep]_vars

\* C13: map_mmio with a phys that is not 4 KiB aligned (interrupts disabled, as
\* the function requires) fails with InvalidAddress and leaves every entry of
\* every page table unchanged.
C13_MapMmioUnalignedStep ==
    (CallStep("map_mmio") /\ ~rflags_if /\ pg_op'.phys % PAGE_SIZE # 0)
        => /\ pg_op'.res = "InvalidAddress"
           /\ pg_op'.virt = NotCalled
           /\ OtherEntriesKept({})
           /\ UNCHANGED <<pml4, pdp, pd, cr3>>
C13_MapMmioUnaligned == [][C13_MapMmioUnalignedStep]_vars

\* a misaligned map_mmio call has returned, into tables that hold mappings
C13_Witness ==
    /\ pg_op.kind = "map_mmio" /\ pg_op.phys % PAGE_SIZE # 0
    /\ pg_op.res = "InvalidAddress"
    /\ ~is_present(EntryAt(pt, PtSlot(pg_op.phys)))
    /\ is_present(LeafEntry(boot.kernel.text_start))

\* the indices of the present PML4 entries
PresentPml4 == {i \in 0 .. PAGE_TABLE_ENTRY_COUNT - 1 : is_present(EntryAt(pml4, i))}

\* init has run to its end: CR3 holds the kernel's PML4
InitCompleted == pg_op.kind # "none" /\ pg_op.res # "none" /\ cr3 = TableAddr("PML4", 0)

\* C14: from the end of paging init on, whatever map_mmio, map_huge_2mb,
\* map_huge_1gb and map_framebuffer_huge calls follow, the PML4 has exactly one
\* present entry, the one that covers KERNEL_BASE.
C14_Pml4OnlyKernelEntry ==
    InitCompleted => PresentPml4 = {PML4_KERNEL_INDEX}

\* two mapping calls after init have succeeded, a huge page is in the PD and a
\* 1 GiB page in the PDP
C14_Witness ==
    /\ InitCompleted
    /\ pg_op.n = MaxPagingCalls /\ pg_op.kind = "map_huge_1gb" /\ pg_op.res = "Ok"
    /\ \E k \in DOMAIN pd : is_huge_page(pd[k])
    /\ is_huge_page(EntryAt(pdp, 1))
    /\ PresentPml4 = {PML4_KERNEL_INDEX}


(***************************************************************************)
(* Interrupt masking                                                       *)
(***************************************************************************)
\* positions inside a critical section of the allocator
FreeListPcs == {"slab_alloc_read", "slab_alloc_write", "slab_alloc_exit",
                "buddy_alloc_body", "buddy_alloc_exit",
                "slab_free_link", "slab_free_write", "slab_free_exit",
                "buddy_free_body", "buddy_free_exit"}

\* the blocks handed out and not given back
HeldBlocks ==
    UNION {cx[c].own : c \in Contexts}
        \cup (IF wq_buf = NULL THEN {}
              ELSE {[ptr |-> wq_buf, size |-> WaitersLayout.size,
                     align |-> WaitersLayout.align]})

\* bytes of the block the allocator handed out for b
HeldBytes(b) ==
    IF b.ptr >= region_start
    THEN order_to_size(size_to_order(Max(Max(b.size, b.align), MIN_BLOCK_SIZE)))
    ELSE ClassSize(ClassOf(b))

RECURSIVE SumHeldBuddyBytes(_)
SumHeldBuddyBytes(bs) ==
    IF bs = {} THEN 0
    ELSE LET b == CHOOSE x \in bs : TRUE
         IN  (IF b.ptr >= region_start THEN HeldBytes(b) ELSE 0)
             + SumHeldBuddyBytes(bs \ {b})

\* no alloc or dealloc is under way
AllocatorQuiescent == \A c \in Contexts : cx[c].lay = NoBlock

\* C6: with interrupts enabled around the calls, every step that reads or
\* writes a free list runs with interrupts disabled in the running context,
\* no block is held twice or held while free, and between calls every block
\* is either free or held.
C6_AllocatorInterruptSafe ==
    heap_inited =>
        /\ \A c \in Contexts :
               cx[c].pc \in FreeListPcs => rflags_if = FALSE /\ cur = c
        /\ \A a \in HeldBlocks, b \in HeldBlocks :
               a # b => a.ptr + HeldBytes(a) <= b.ptr \/ b.ptr + HeldBytes(b) <= a.ptr
        /\ \A b \in HeldBlocks :
               /\ \A k \in Classes : \A i \in 1 .. Len(slab[k]) : slab[k][i] # b.ptr
               /\ ~CoveredByFreeBuddyBlock(b.ptr)
        /\ \A k \in Classes :
               Cardinality({slab[k][i] : i \in 1 .. Len(slab[k])}) = Len(slab[k])
        /\ AllocatorQuiescent =>
               /\ SlabFreeBlocks(slab)
                      + Cardinality({b \in HeldBlocks : b.ptr < region_start}) = cap0[1]
               /\ BuddyFreeBytes(buddy) + SumHeldBuddyBytes(HeldBlocks) = cap0[2]

\* a task was pre-empted between the slab and the buddy critical section of
\* its alloc, the interrupt handler is inside the buddy allocator, and the
\* other task holds a block
C6_Witness ==
    /\ cx["task1"].pc = "buddy_alloc_enter"
    /\ cx["task2"].own # {}
    /\ cur = "irq"
    /\ cx["irq"].pc = "buddy_alloc_exit"
    /\ cx["irq"].node # NULL

\* c is inside the closure of a wait_queue.rs without_interrupts call
InWq(c) == \E i \in 1 .. Len(cx[c].saved) : cx[c].saved[i].fn = "wq"

\* C7: while f runs inside without_interrupts the interrupt flag is clear,
\* and when without_interrupts returns the flag equals its value right
\* before the call: a call made with the flag clear leaves it clear.
C7_WithoutInterruptsRestores ==
    /\ \A c \in Contexts : InWq(c) => rflags_if = FALSE /\ cur = c
    /\ wi_op.kind = "exit" => rflags_if = wi_op.entry_if

\* the interrupt handler, running with the flag clear, has called wake_one
\* and without_interrupts has returned, while a task is blocked in wait()
\* after a push that allocated inside its own without_interrupts
C7_Witness ==
    /\ wi_op = [kind |-> "exit", who |-> "irq", entry_if |-> FALSE]
    /\ wq_buf # NULL
    /\ blocked # {}


(***************************************************************************)
(* Claims about the scheduler, checked under SpecSched                     *)
(***************************************************************************)
\* the step dispatches the task: it becomes the current task
DispatchOf(id) == sched'.current = id /\ sched.current # id

\* C15: a task that called sleep_ms(n) at tick t is not dispatched before the
\* tick counter has reached t + n * frequency_hz / 1000, whatever the other
\* tasks do in between.
C15_SleepStep ==
    \A id \in SchedTasks :
        (DispatchOf(id) /\ tcx[id].sleep_ms # 0)
            => sched'.tick >= tcx[id].sleep_tick + (tcx[id].sleep_ms * frequency_hz) \div 1000
C15_SleepNotDispatchedEarly == [][C15_SleepStep]_vars

\* a task that slept 16 ms runs again at the tick that woke it, while another
\* task is blocked
C15_Witness ==
    /\ sch_op.kind = "timer" /\ sched.current \in sch_op.woken
    /\ sched.tick = MaxTick
    /\ \E t \in SchedTasks \ {sched.current} : sched.state[t] = "Blocked"

\* the tasks in a queue, and x ahead of y in it
InQueue(q) == {q[i] : i \in 1 .. Len(q)}
Ahead(q, x, y) == \E i, j \in 1 .. Len(q) : i < j /\ q[i] = x /\ q[j] = y

\* the deadline a sleeping task waits for
DeadlineOf(x) == (CHOOSE e \in sched.sleeping : e.id = x).deadline

\* d, dispatched by the step, was ready before x, which stays in the queue
JoinedBefore(d, x) ==
    \/ /\ d \in InQueue(sched.ready)
       /\ x \in InQueue(sched.ready) => Ahead(sched.ready, d, x)
    \/ /\ d \notin InQueue(sched.ready) /\ d # sched.current
       /\ x \notin InQueue(sched.ready)
       /\ x # sched.current => DeadlineOf(d) <= DeadlineOf(x)
    \/ /\ d = sched.current
       /\ x \notin InQueue(sched.ready) /\ sched.state[x] \notin {"Sleeping", "Blocked"}

\* C16: schedule() dispatches a ready task of the lowest nice, among equal nice
\* the one that joined the ready queue first, and a task woken from Sleeping or
\* Blocked joins behind the tasks already ready.
C16_ScheduleStep ==
    /\ sch_op'.yield =>
           /\ sched'.ready # <<>> => sched'.current # NoTask
           /\ \A x \in InQueue(sched'.ready) :
                  /\ nice[sched'.current] <= nice[x]
                  /\ nice[x] = nice[sched'.current] => JoinedBefore(sched'.current, x)
    /\ \A x \in InQueue(sched'.ready) :
           sched.state[x] \in {"Sleeping", "Blocked"}
               => \A y \in InQueue(sched.ready) \cap InQueue(sched'.ready) :
                      Ahead(sched'.ready, y, x)
    /\ \A x, y \in InQueue(sched.ready) \cap InQueue(sched'.ready) :
           Ahead(sched.ready, x, y) => Ahead(sched'.ready, x, y)
C16_LowestNiceFifo == [][C16_ScheduleStep]_vars

\* task c has blocked while a and b, of equal nice, were both ready: one of
\* them runs and the other is still queued
C16_Witness ==
    /\ sch_op.kind = "block_current_task" /\ sch_op.who = "c"
    /\ sched.current \in {"a", "b"}
    /\ {"a", "b"} \ {sched.current} \subseteq InQueue(sched.ready)

\* C17: a task that called block_current_task() is not dispatched until
\* unblock_task is called with its id, and unblock_task(id) on a Blocked task
\* makes it Ready at once, in the ready queue the next schedule() takes from.
C17_BlockStep ==
    /\ sch_op'.kind = "block_current_task"
           => /\ sched'.state[sch_op'.who] = "Blocked"
              /\ sched'.current # sch_op'.who
    /\ \A id \in AllTasks :
           /\ sched'.state[id] = "Blocked"
                  => id \notin InQueue(sched'.ready) /\ sched'.current # id
           /\ DispatchOf(id) => sched.state[id] # "Blocked"
           /\ (sched.state[id] = "Blocked" /\ sched'.state[id] # "Blocked")
                  => sch_op'.kind = "unblock_task" /\ sch_op'.id = id
           /\ (sch_op'.kind = "unblock_task" /\ sch_op'.id = id /\ sched.state[id] = "Blocked")
                  => sched'.state[id] = "Ready" /\ id \in InQueue(sched'.ready)
C17_BlockedUntilUnblocked == [][C17_BlockStep]_vars

\* a task that had blocked itself has been unblocked by another one and waits
\* in the ready queue
C17_Witness ==
    /\ sch_op.kind = "unblock_task" /\ sch_op.id \in sch_op.woken
    /\ sch_op.who # sch_op.id
    /\ sched.state[sch_op.id] = "Ready" /\ sch_op.id \in InQueue(sched.ready)


\* the vectors whose handler ends in a halt loop
FatalVectors == ExceptionVectors \ {3}

\* C18: once the handler of Divide Error, Debug, Invalid Opcode, Double Fault,
\* General Protection or Page Fault is entered, control never returns and no
\* task is dispatched again; the Breakpoint handler is the only one that
\* returns to the interrupted code.
C18_ExceptionStep ==
    /\ cpu.halted # NoVector => UNCHANGED <<sched, tcx, cpu, wq, mtx>>
    /\ sch_op'.kind = "exception"
           => /\ sched' = sched /\ tcx' = tcx
              /\ IF sch_op'.ret THEN cpu' = cpu /\ cpu.halted = NoVector
                 ELSE cpu'.halted \in FatalVectors
    /\ cpu'.halted # cpu.halted
           => sch_op'.kind = "exception" /\ ~sch_op'.ret /\ cpu.halted = NoVector
C18_FatalExceptionsHalt == [][C18_ExceptionStep]_vars

\* the page fault handler sits in its halt loop while other tasks are ready,
\* a sleeper is due and the timer has ticks left
C18_Witness ==
    /\ cpu.halted = 14 /\ sch_op.kind = "exception"
    /\ sched.current \in SchedTasks /\ sched.ready # <<>>
    /\ sched.tick < MaxTick
    /\ \E e \in sched.sleeping : e.deadline <= sched.tick + 1

\* the breakpoint handler has returned to the task that raised it
C18_BreakpointReturned ==
    sch_op.kind = "exception" /\ sch_op.ret /\ cpu = CpuRunning /\ sched.current = sch_op.who

(***************************************************************************)
(* Claims about the wait queue, checked under SpecWq                       *)
(***************************************************************************)
\* the step is the unblock_task call of a wake_one or wake_all by task t
WakeUnblockStep(t) == sch_op'.kind = "unblock_task" /\ sch_op'.who = t
                      /\ tcx[t].pc = "wake_unblock"

\* C19: wake_one() removes the id queued longest, unblocks exactly that task
\* and returns true, or returns false and unblocks nobody on an empty queue;
\* wake_all() does the same id by id in queue order and returns with the queue
\* empty; wait() queues the caller behind the ids already waiting.
C19_WaitQueueStep ==
    /\ sch_op'.kind = "wq_push" => wq'["wq"] = Append(wq["wq"], sch_op'.who)
    /\ sch_op'.kind = "wq_pop"
           => /\ wq["wq"] # <<>> /\ sch_op'.id = wq["wq"][1]
              /\ wq'["wq"] = SubSeq(wq["wq"], 2, Len(wq["wq"]))
              /\ tcx'[sch_op'.who].tid = sch_op'.id
              /\ sched' = sched
    /\ sch_op'.kind = "wake_one"
           => ~sch_op'.ret /\ wq["wq"] = <<>> /\ wq' = wq /\ sched' = sched
    /\ sch_op'.kind = "wake_all" => wq'["wq"] = <<>> /\ sched' = sched
    /\ \A t \in SchedTasks :
           WakeUnblockStep(t)
               => /\ sch_op'.id = tcx[t].tid
                  /\ sched'.state[sch_op'.id] # "Blocked"
                  /\ \A x \in AllTasks \ {sch_op'.id} : sched'.state[x] = sched.state[x]
                  /\ IF tcx[t].all THEN tcx'[t].pc = "wake_again"
                     ELSE sch_op'.ret /\ tcx'[t].pc = "run"
    /\ sch_op'.kind \notin {"wq_push", "wq_pop"} => wq' = wq
C19_WaitQueueFifo == [][C19_WaitQueueStep]_vars

\* wake_one has returned true after unblocking the first of two queued tasks;
\* the second is still queued
C19_Witness ==
    /\ sch_op.kind = "unblock_task" /\ sch_op.ret /\ sch_op.id \in sch_op.woken
    /\ Len(wq["wq"]) >= 1
    /\ sched.state[sch_op.id] = "Ready"

(***************************************************************************)
(* Claims about the blocking mutex, checked under SpecMutex                *)
(***************************************************************************)
\* the tasks the step takes out of Blocked
Unblocked == {x \in AllTasks : sched.state[x] = "Blocked" /\ sched'.state[x] # "Blocked"}

\* C20: at most one guard of the mutex exists at any time; try_lock never
\* blocks and returns None while a guard exists; dropping the guard releases
\* the lock and wakes at most one task parked on the mutex's wait queue.
C20_MutexStep ==
    /\ Cardinality(mtx'.guards) <= 1
    /\ mtx'.guards # {} => mtx'.locked
    /\ sch_op'.kind = "try_lock"
           => /\ sched' = sched /\ wq' = wq /\ tcx' = tcx
              /\ mtx.guards # {} => ~sch_op'.ret /\ mtx' = mtx
              /\ sch_op'.ret => mtx'.guards = {sch_op'.who}
    /\ sch_op'.kind = "unlock"
           => /\ ~mtx'.locked /\ mtx'.guards = mtx.guards \ {sch_op'.who}
              /\ Unblocked = {}
    /\ \A t \in SchedTasks :
           (tcx[t].pc \in {"unlock_wake", "wake_unblock"} /\ sched.current = t
            /\ sch_op'.kind # "timer")
               => /\ Cardinality(Unblocked) <= 1
                  /\ tcx[t].pc = "wake_unblock" => tcx'[t].pc = "run"
    /\ sch_op'.kind \notin {"try_lock", "lock", "unlock"} => mtx' = mtx
C20_MutexExclusion == [][C20_MutexStep]_vars

\* try_lock has returned None while another task holds the guard and a third
\* is parked on the mutex
C20_Witness ==
    /\ sch_op.kind = "try_lock" /\ ~sch_op.ret
    /\ mtx.guards # {} /\ sch_op.who \notin mtx.guards
    /\ wq["mutex"] # <<>>
    /\ \E x \in InQueue(wq["mutex"]) : sched.state[x] = "Blocked"

(***************************************************************************)
(* Claims about the buddy tier, checked under SpecBuddy                    *)
(***************************************************************************)
\* the step is a deallocate call: a block held before is held no longer
BuddyFreeStep == bd'.op.kind = "deallocate" /\ Len(bd'.held) < Len(bd.held)

\* the step is an allocate call that handed out a block
BuddyAllocStep == bd'.op.kind = "allocate" /\ Len(bd'.held) > Len(bd.held)

\* the block at m of order j went to list j, unless its buddy was free too: then
\* the buddy left list j and the pair went one order up
RECURSIVE Promoted(_, _, _, _)
Promoted(before, after, m, j) ==
    LET b == buddy_address(bd.region_start, m, j)
    IN  IF j < MAX_ORDER - 1 /\ is_in_free_list(before, b, j)
        THEN /\ ~is_in_free_list(after, b, j)
             /\ ~is_in_free_list(after, m, j)
             /\ Promoted(before, after, Min(m, b), j + 1)
        ELSE after[j] # <<>> /\ Head(after[j]) = m

\* C27: for every order k below the largest, when block a is freed at order k
\* while its buddy is on the order-k free list, afterwards neither a nor the
\* buddy is on the order-k list and the merged block at min(a, buddy) is on the
\* order-(k+1) list, or merged further while its next buddy is free as well.
C27_CoalesceStep ==
    LET a == bd'.op.ptr
        k == bd'.op.order
        b == buddy_address(bd.region_start, a, k)
    IN  (BuddyFreeStep /\ k < MAX_ORDER - 1 /\ is_in_free_list(bd.free_lists, b, k))
            => /\ ~is_in_free_list(bd'.free_lists, a, k)
               /\ ~is_in_free_list(bd'.free_lists, b, k)
               /\ Promoted(bd.free_lists, bd'.free_lists, Min(a, b), k + 1)
C27_BuddyCoalesces == [][C27_CoalesceStep]_vars

\* the free list of order o holds a block that covers the address
CoveredAt(fl, o, ptr) ==
    \E i \in 1 .. Len(fl[o]) : fl[o][i] <= ptr /\ ptr < fl[o][i] + order_to_size(o)

\* a block above its free buddy was freed and the pair merged two orders up
\* or more, while other blocks are still held
C27_Witness ==
    /\ bd.op.kind = "deallocate" /\ bd.held # <<>>
    /\ \E j \in Orders : /\ j >= bd.op.order + 2
                           /\ CoveredAt(bd.free_lists, j, bd.op.ptr)
                           /\ ~is_in_free_list(bd.free_lists, bd.op.ptr, j)

\* C28: from a region whose only free block is one block of order 10 (4 MiB),
\* four allocations of 1 MiB followed by the four frees in reverse order of
\* allocation leave one block on the order-10 list, at the address it had, and
\* no block on any other list.
C28_ReverseFreeRestores ==
    (bd.run = "freeing" /\ bd.held = <<>>) =>
        \A o \in Orders :
            bd.free_lists[o] = (IF o = 10 THEN <<bd.region_start>> ELSE <<>>)

\* the last of the four frees has been made
C28_Witness ==
    /\ bd.run = "freeing" /\ bd.held = <<>>
    /\ bd.op.kind = "deallocate" /\ bd.op.order = 8 /\ bd.op.ptr = bd.region_start

\* C30: an allocation of required order r takes the head of the lowest
\* non-empty free list of order >= r, returns the start of that block, and
\* pushes one block on each order from r up to the one below the list it took
\* from: the upper half of the block split at that level.
C30_SplitStep ==
    BuddyAllocStep =>
        LET r == bd'.op.order
            cand == {o \in Orders : o >= r /\ bd.free_lists[o] # <<>>}
            found == CHOOSE o \in cand : \A q \in cand : o <= q
            block == Head(bd.free_lists[found])
        IN  /\ cand # {}
            /\ bd'.op.ptr = block
            /\ \A o \in Orders :
                   bd'.free_lists[o] =
                       IF o = found THEN Tail(bd.free_lists[o])
                       ELSE IF o >= r /\ o < found
                            THEN <<block + order_to_size(o)>> \o bd.free_lists[o]
                       ELSE bd.free_lists[o]
C30_AllocateSplits == [][C30_SplitStep]_vars

\* a block of order 0 was cut out of a block several orders larger while a
\* smaller free block of sufficient order was not available
C30_Witness ==
    /\ bd.op.kind = "allocate" /\ bd.op.ptr # NULL /\ bd.op.order = 0
    /\ Len(bd.held) >= 2
    /\ \A o \in 0 .. 5 : bd.free_lists[o] = <<bd.op.ptr + order_to_size(o)>>

(***************************************************************************)
(* Claims about the dispatch of alloc, checked under SpecHeap              *)
(***************************************************************************)
\* the least k with 2^k >= n
CeilLog2(n) == CHOOSE k \in 0 .. 30 : Pow2(k) >= n /\ (k = 0 \/ Pow2(k - 1) < n)

\* the step is a call of alloc
AllocStep == op'.kind = "alloc" /\ <<op, slab, buddy, live>>' # <<op, slab, buddy, live>>

\* C29: alloc dispatches on effective = max(size, align).  Up to 4096 it tries
\* slab class ceil(log2(max(effective, 8))) - 3 first (size 12: the 16-byte
\* class, size 200: the 256-byte class); when that class is empty, or above
\* 4096, it asks the buddy tier for order max(0, ceil(log2(effective)) - 12)
\* (size 8192: order 1, a block of 8 KiB).
C29_DispatchStep ==
    AllocStep =>
        LET effective == Max(op'.size, op'.align)
            class == CeilLog2(Max(effective, 8)) - 3
            order == Max(0, CeilLog2(effective) - 12)
            fromSlab == effective <= 4096 /\ slab[class] # <<>>
        IN  /\ fromSlab => /\ op'.tier = "slab" /\ op'.idx = class
                           /\ op'.ptr = Head(slab[class])
                           /\ slab'[class] = Tail(slab[class])
                           /\ buddy' = buddy
            /\ ~fromSlab => /\ op'.tier = "buddy" /\ op'.idx = order
                            /\ slab' = slab
                            /\ op'.ptr # NULL =>
                                   BuddyFreeBytes(buddy')
                                       = BuddyFreeBytes(buddy) - order_to_size(order)
            /\ op'.size = 12 /\ fromSlab => ClassSize(op'.idx) = 16
            /\ op'.size = 200 /\ fromSlab => ClassSize(op'.idx) = 256
            /\ op'.size = 8192 => op'.tier = "buddy" /\ op'.idx = 1
C29_AllocDispatch == [][C29_DispatchStep]_vars

\* a request of 4096 bytes found its slab class empty and got a buddy block of
\* order 0, while a block of the 256-byte class is held
C29_Witness ==
    /\ op.kind = "alloc" /\ op.size = 4096 /\ op.tier = "buddy" /\ op.idx = 0
    /\ op.ptr # NULL
    /\ \E b \in live : b.size = 200 /\ b.tier = "slab" /\ ClassSize(b.idx) = 256

(***************************************************************************)
(* The drawing pipeline (SpecGfx, SpecGfxVis)                              *)
(***************************************************************************)
\* the cells of the frame buffer a command of a buffer with the region draws on
Covers(region, cmd, c) ==
    CASE cmd.kind = "Clear" -> c \in CellsOf(region.x, region.width)
      [] cmd.kind = "DrawChar" -> c \in CellsOf(region.x + cmd.x, FONT_WIDTH)
      [] cmd.kind = "DrawString" -> c \in CellsOf(region.x + cmd.x, Len(cmd.text) * FONT_WIDTH)
      [] cmd.kind = "FillRect" -> c \in CellsOf(region.x + cmd.x, cmd.width)
IsRect(cmd) == cmd.kind \in {"Clear", "FillRect"}

\* the position in the list of the last command that draws on the cell, the
\* last rectangle that does, or 0
LastOn(region, commands, c, rects) ==
    LET on == {k \in 1 .. Len(commands) :
                  Covers(region, commands[k], c) /\ (rects => IsRect(commands[k]))}
    IN  IF on = {} THEN 0 ELSE CHOOSE k \in on : \A j \in on : j <= k

\* what a cell shows when the commands have been drawn one after the other in
\* the order of the list: the fill of the last rectangle on it, and the glyph of
\* the last command on it if that is a text
DrawnInOrder(old, region, commands, c) ==
    LET r == LastOn(region, commands, c, TRUE)
        k == LastOn(region, commands, c, FALSE)
    IN  Cell(IF r = 0 THEN old.bg ELSE commands[r].color,
             IF k = 0 THEN old.ink ELSE IF IsRect(commands[k]) THEN NoInk
             ELSE {commands[k].color})

\* C21: the commands a task pushes into its buffer are appended to the list in
\* the order of the pushes; a compositor pass renders the list from the first
\* to the last command; and the list is emptied only by the compositor, after
\* it has rendered every command the list holds at that time
C21_RenderStep ==
    /\ gfx_op'.kind = "push_command" =>
           \E cmd \in WriterCommands[gfx_op'.who] :
               wbuf'[gfx_op'.buffer].commands = wbuf[gfx_op'.buffer].commands \o <<cmd>>
    /\ gfx_op'.kind = "render" =>
           /\ wbuf' = wbuf
           /\ gt'[CompositorTask].commands_copy = wbuf[gfx_op'.buffer].commands
           /\ \A c \in Cells :
                  shadow'[c] = DrawnInOrder(shadow[c], wbuf[gfx_op'.buffer].region,
                                            wbuf[gfx_op'.buffer].commands, c)
    /\ \A i \in 1 .. Len(wbuf) :
           Len(wbuf'[i].commands) < Len(wbuf[i].commands) =>
               /\ gfx_op'.kind = "clear" /\ gfx_op'.buffer = i
               /\ gt[CompositorTask].pc = "clear"
               /\ gt[CompositorTask].commands_copy = wbuf[i].commands
               /\ wbuf'[i].commands = <<>>

C21_RendersInPushOrder == [][C21_RenderStep]_vars

\* a pass has rendered and cleared two commands whose order shows: the text
\* pushed after the Clear is on the cleared cells
C21_Witness ==
    /\ gfx_op.kind = "clear"
    /\ \E e \in gt[CompositorTask].consumed :
           /\ Len(e.commands) = 2
           /\ e.commands[1].kind = "Clear" /\ e.commands[2].kind = "DrawString"
           /\ wbuf[e.buffer].commands = <<>>
           /\ shadow[wbuf[e.buffer].region.x \div FONT_WIDTH] = Cell(Colour.blue, {Colour.white})

\* C22: register_writer leaves every vector of buffers that exists as it is and
\* makes the compositor's list a new vector: the old one with the new buffer
\* at its end. The snapshot a frame works on stays what it was when it was
\* taken, the frame touches the buffers of its snapshot only, one after the
\* other, and the snapshot of the next frame holds every buffer registered by
\* then
C22_RegisterStep ==
    LET l == gt[CompositorTask]
    IN  /\ gfx_op'.kind = "register_writer" /\ gfx_op'.ok =>
               /\ vecs'[compositor'.buffers] = Append(vecs[compositor.buffers], gfx_op'.buffer)
               /\ gfx_op'.buffer = Len(wbuf) + 1 /\ Len(wbuf') = Len(wbuf) + 1
               /\ \A v \in 1 .. Len(vecs) : vecs'[v] = vecs[v]
        /\ gfx_op'.kind = "snapshot" /\ gfx_op'.ok =>
               /\ gt'[CompositorTask].buffers_snapshot = compositor.buffers
               /\ gt'[CompositorTask].snapshot_held = [i \in 1 .. Len(wbuf) |-> i]
               /\ gt'[CompositorTask].buffer_idx = 1
        /\ gt'[CompositorTask].pc \in {"visit", "locked", "clear", "blit"} =>
               vecs'[gt'[CompositorTask].buffers_snapshot] = gt'[CompositorTask].snapshot_held
        /\ gfx_op'.kind \in {"try_lock", "skip", "render", "clear"} =>
               /\ l.buffer_idx \in 1 .. Len(l.snapshot_held)
               /\ gfx_op'.buffer = l.snapshot_held[l.buffer_idx]
        /\ gt'[CompositorTask].buffer_idx # l.buffer_idx =>
               \/ gfx_op'.kind = "snapshot"
               \/ /\ gfx_op'.kind \in {"try_lock", "skip", "clear"}
                  /\ gt'[CompositorTask].buffer_idx = l.buffer_idx + 1
        /\ gfx_op'.kind = "visited" => l.buffer_idx = Len(l.snapshot_held) + 1

C22_RegisterCopyOnWrite == [][C22_RegisterStep]_vars

\* a writer has registered while the compositor is in the middle of a frame
\* whose snapshot was taken with a buffer in it
C22_Witness ==
    /\ gfx_op.kind = "register_writer" /\ gfx_op.ok
    /\ gt[CompositorTask].pc = "visit"
    /\ Len(gt[CompositorTask].snapshot_held) = 1
    /\ Len(vecs[compositor.buffers]) = 2

\* C23: register_writer returns None while COMPOSITOR is None, and then
\* creates no buffer and no vector and leaves COMPOSITOR as it is; with and
\* without a compositor RFLAGS.IF is after the call what it was before. With a
\* compositor it returns a new buffer, which is in the compositor's list from
\* then on and so in every snapshot taken later
C23_RegisterWriterStep ==
    /\ gfx_op'.kind = "register_writer" =>
           /\ gfx_op'.ok = compositor.inited
           /\ cpu'.rflags_if = cpu.rflags_if
           /\ ~compositor.inited =>
                  /\ gfx_op'.buffer = 0
                  /\ wbuf' = wbuf /\ vecs' = vecs /\ compositor' = compositor
                  /\ shadow' = shadow /\ hw_fb' = hw_fb /\ gt' = gt
           /\ compositor.inited =>
                  /\ gfx_op'.buffer \in 1 .. Len(wbuf') /\ gfx_op'.buffer \notin 1 .. Len(wbuf)
                  /\ wbuf'[gfx_op'.buffer].commands = <<>> /\ ~wbuf'[gfx_op'.buffer].dirty
                  /\ wbuf'[gfx_op'.buffer].region = WriterRegion[gfx_op'.who]
    /\ compositor'.inited =>
           \A i \in 1 .. Len(wbuf') :
               \E k \in 1 .. Len(vecs'[compositor'.buffers]) : vecs'[compositor'.buffers][k] = i
    /\ gfx_op'.kind = "snapshot" /\ gfx_op'.ok =>
           \A i \in 1 .. Len(wbuf) :
               \E k \in 1 .. Len(gt'[CompositorTask].snapshot_held) :
                   gt'[CompositorTask].snapshot_held[k] = i

C23_RegisterWriterUnavailable == [][C23_RegisterWriterStep]_vars

\* register_writer has returned None to a caller that runs with interrupts
\* disabled
C23_Witness ==
    /\ gfx_op.kind = "register_writer" /\ ~gfx_op.ok /\ gfx_op.buffer = 0
    /\ ~compositor.inited /\ ~cpu.rflags_if /\ wbuf = <<>>

\* a buffer registered after init_compositor is in the snapshot of a frame
C23_WitnessRegistered ==
    /\ gfx_op.kind = "snapshot" /\ gfx_op.ok
    /\ gt[CompositorTask].snapshot_held = <<1, 2>>

IsPrefix(s, t) == Len(s) <= Len(t) /\ SubSeq(t, 1, Len(s)) = s

\* C24: the compositor task is never Blocked and never on a buffer's wait
\* queue. Its try_lock on a buffer whose lock is held returns at once: nothing
\* of the buffer changes, no task is switched, and the frame goes on to the
\* next buffer. A dirty buffer it could not lock stays dirty, with the commands
\* it held at the front of its list, until the compositor renders it; it is in
\* the snapshot of the next frame, and when a frame gets its lock it renders
\* the whole list
C24_TryLockStep ==
    LET l == gt[CompositorTask]
    IN  /\ sched'.state[CompositorTask] # "Blocked"
        /\ \A i \in 1 .. Len(wbuf') :
               \A k \in 1 .. Len(wbuf'[i].waiters) : wbuf'[i].waiters[k] # CompositorTask
        /\ gfx_op'.kind = "try_lock" =>
               /\ gfx_op'.ok = ~wbuf[gfx_op'.buffer].lock.locked
               /\ sched' = sched
               /\ ~gfx_op'.ok =>
                      /\ wbuf' = wbuf
                      /\ gt'[CompositorTask].pc = "visit"
                      /\ gt'[CompositorTask].buffer_idx = l.buffer_idx + 1
               /\ gfx_op'.ok =>
                      /\ gt'[CompositorTask].pc = "locked"
                      /\ wbuf'[gfx_op'.buffer].lock.guards = {CompositorTask}
                      /\ wbuf'[gfx_op'.buffer].commands = wbuf[gfx_op'.buffer].commands
                      /\ wbuf'[gfx_op'.buffer].dirty = wbuf[gfx_op'.buffer].dirty
        /\ \A e \in gt'[CompositorTask].missed :
               /\ wbuf'[e.buffer].dirty
               /\ IsPrefix(e.commands, wbuf'[e.buffer].commands)
        /\ gfx_op'.kind = "snapshot" /\ gfx_op'.ok =>
               \A e \in l.missed :
                   \E k \in 1 .. Len(gt'[CompositorTask].snapshot_held) :
                       gt'[CompositorTask].snapshot_held[k] = e.buffer
        /\ l.pc = "locked" /\ gfx_op'.who = CompositorTask /\ wbuf[BufferAt(l)].dirty =>
               /\ gfx_op'.kind = "render" /\ gfx_op'.buffer = BufferAt(l)
               /\ gt'[CompositorTask].commands_copy = wbuf[BufferAt(l)].commands

C24_CompositorNeverBlocks == [][C24_TryLockStep]_vars

\* a frame renders a buffer that an earlier frame found dirty and locked
C24_Witness ==
    /\ gfx_op.kind = "render"
    /\ \E e \in gt[CompositorTask].missed :
           /\ e.buffer = gfx_op.buffer
           /\ e.commands # <<>>
           /\ IsPrefix(e.commands, gt[CompositorTask].commands_copy)

\* C25: when the compositor has rendered a dirty buffer under its lock, the
\* clear that follows leaves the buffer with an empty list, not dirty and
\* unlocked; and the blit at the end of the frame makes the hardware frame
\* buffer equal to the shadow buffer, with what the commands of every buffer
\* rendered in the frame drew: on each cell a command covers, the glyph of the
\* last command on it (none after a rectangle) and the fill of the last
\* rectangle on it
C25_FrameStep ==
    /\ gfx_op'.kind = "clear" =>
           /\ wbuf'[gfx_op'.buffer].commands = <<>>
           /\ ~wbuf'[gfx_op'.buffer].dirty
           /\ CompositorTask \notin wbuf'[gfx_op'.buffer].lock.guards
           /\ \E e \in gt'[CompositorTask].consumed :
                  e.buffer = gfx_op'.buffer /\ e.commands = wbuf[gfx_op'.buffer].commands
    /\ gfx_op'.kind = "blit" =>
           /\ hw_fb' = shadow /\ shadow' = shadow
           /\ \A e \in gt[CompositorTask].consumed : \A c \in Cells :
                  LET k == LastOn(wbuf[e.buffer].region, e.commands, c, FALSE)
                      r == LastOn(wbuf[e.buffer].region, e.commands, c, TRUE)
                  IN  /\ k # 0 => hw_fb'[c].ink = IF IsRect(e.commands[k]) THEN NoInk
                                                  ELSE {e.commands[k].color}
                      /\ r # 0 => hw_fb'[c].bg = e.commands[r].color

C25_FrameReachesFramebuffer == [][C25_FrameStep]_vars

\* the frame of the claim: the buffer with Region{0, 0, 80, 8} held
\* DrawString{0, 0, "hello"}; after the blit the list is empty and not dirty,
\* and the glyphs are on the pixels (0..40, 0..8) of the hardware frame buffer
\* and not beyond
C25_Witness ==
    /\ gfx_op.kind = "blit"
    /\ \E e \in gt[CompositorTask].consumed :
           /\ wbuf[e.buffer].region = Region(0, 0, 80, 8)
           /\ Len(e.commands) = 1 /\ e.commands[1].kind = "DrawString"
           /\ e.commands[1].x = 0 /\ e.commands[1].y = 0 /\ e.commands[1].text = Hello
           /\ wbuf[e.buffer].commands = <<>> /\ ~wbuf[e.buffer].dirty
    /\ \A c \in CellsOf(0, 40) : hw_fb[c].ink = {Colour.white}
    /\ CellsOf(0, 40) = 0 .. 4
    /\ hw_fb[5].ink = NoInk

\* the writer has published and is Blocked in sync_flush: it is not a waiter of
\* its buffer's lock
InSyncFlush(t) ==
    /\ gt[t].pc = "write" /\ gt[t].buffer # 0 /\ gt[t].cmd_idx > 0
    /\ sched.state[t] = "Blocked"
    /\ \A k \in 1 .. Len(wbuf[gt[t].buffer].waiters) : wbuf[gt[t].buffer].waiters[k] # t

\* C26: a writer that has published commands and is Blocked in sync_flush is
\* made Ready again
C26_SyncFlushWakes ==
    \A t \in WriterTasks : InSyncFlush(t) ~> (sched.state[t] # "Blocked")

\* the compositor has cleared the buffer of a writer that is Blocked in
\* sync_flush, and the writer is Ready
C26_Witness ==
    /\ gfx_op.kind = "vis_clear" /\ gfx_op.ok
    /\ \E t \in WriterTasks :
           /\ gt[t].buffer = gfx_op.buffer /\ gt[t].pc = "write"
           /\ wbuf[gt[t].buffer].owner_task_id = t
           /\ sched.state[t] = "Ready"

(***************************************************************************)
(* The direct map and the MMIO range table (SpecPaging, SpecMmio)          *)
(***************************************************************************)
\* the linear scan: phys lies in a region of type MMIO or MMIO port space
InMmioRegion(memory_map, phys) ==
    \E i \in 1 .. Len(memory_map) :
        /\ memory_map[i].type \in {EFI_MEMORY_MAPPED_IO, EFI_MEMORY_MAPPED_IO_PORT_SPACE}
        /\ memory_map[i].start <= phys
        /\ phys < memory_map[i].start + memory_map[i].size

\* the 4 KiB pages below min(max_physical, 8 GiB) that start outside the image
PagesOutsideImage ==
    LET actual_max == IF boot.max_physical_address \div GiB >= MAX_SUPPORTED_MEMORY_GB
                      THEN MAX_SUPPORTED_MEMORY_GB * GiB
                      ELSE boot.max_physical_address
    IN  {p \in 0 .. (actual_max - 1) \div PAGE_SIZE :
            ~(p * PAGE_SIZE >= boot.kernel.text_start /\ p * PAGE_SIZE < boot.kernel.bss_end)}

DisjointMmio(memory_map) ==
    LET is_mmio(i) == memory_map[i].type \in {EFI_MEMORY_MAPPED_IO,
                                              EFI_MEMORY_MAPPED_IO_PORT_SPACE}
    IN  /\ Cardinality({i \in 1 .. Len(memory_map) : is_mmio(i)}) <= 64
        /\ \A i, j \in 1 .. Len(memory_map) :
               is_mmio(i) /\ is_mmio(j) /\ i < j =>
                   \/ memory_map[i].start + memory_map[i].size <= memory_map[j].start
                   \/ memory_map[j].start + memory_map[j].size <= memory_map[i].start

\* C32: the binary-search lookup in the table built from a memory map answers
\* true for a physical address exactly when the address lies in
\* [start, start + size) of a region of type MMIO or MMIO port space of the map
C32_LookupAgreesWithScan ==
    mmio_tab.lookup.done =>
        (mmio_tab.lookup.result <=> InMmioRegion(mmio_tab.memory_map, mmio_tab.lookup.phys_addr))

\* the lookup agrees with the scan on the maps whose MMIO regions are disjoint
\* and at most 64
C32_LookupAgreesOnDisjointMaps ==
    mmio_tab.lookup.done /\ DisjointMmio(mmio_tab.memory_map) =>
        (mmio_tab.lookup.result <=> InMmioRegion(mmio_tab.memory_map, mmio_tab.lookup.phys_addr))

\* an address of the region that was listed last, and so sorted to the front,
\* has been found in a table of 64 regions
C32_WitnessSorted ==
    /\ mmio_tab.lookup.done /\ mmio_tab.lookup.result
    /\ Len(mmio_tab.mmio_ranges) = 64 /\ Len(mmio_tab.memory_map) = 64
    /\ mmio_tab.lookup.phys_addr = mmio_tab.memory_map[64].start + 2048
    /\ mmio_tab.mmio_ranges[1].start = mmio_tab.memory_map[64].start

(***************************************************************************)
(* The timer interrupt (SpecSched)                                         *)
(***************************************************************************)
\* C33: a timer interrupt increments the tick counter by exactly one, moves
\* every sleeper whose deadline is reached, and no other, to the ready queue,
\* and sends the end-of-interrupt after both; a scheduler pass on the way out
\* chooses among the woken tasks too, and in no state is a sleeper left whose
\* deadline has passed, so that whenever the scheduler chooses a task such a
\* sleeper is in the ready queue
C33_TimerStep ==
    /\ \A e \in sched.sleeping : e.deadline > sched.tick
    /\ sched'.tick # sched.tick =>
           LET expired == {e \in sched.sleeping : e.deadline <= sched.tick + 1}
           IN  /\ sched'.tick = sched.tick + 1
               /\ sched'.sleeping = sched.sleeping \ expired
               /\ \A e \in expired :
                      /\ sched'.state[e.id] \in {"Ready", "Running"}
                      /\ e.id \in InQueue(sched'.ready) \/ sched'.current = e.id
                      /\ sched'.current # sched.current
                             => nice[sched'.current] <= nice[e.id]
               /\ \A t \in AllTasks :
                      sched.state[t] = "Sleeping" /\ (\A e \in expired : e.id # t)
                          => sched'.state[t] = "Sleeping"
               /\ sch_op'.kind = "timer" /\ sch_op'.eoi.sent
               /\ sch_op'.eoi.tick = sched.tick + 1
               /\ sch_op'.eoi.sleeping = sched.sleeping \ expired

WaitersLockHolders == {c \in Contexts : cx[c].spin}

\* a context stands at self.waiters.lock()
AtWaitersLock(c) == cur = c /\ cx[c].pc \in {"wq_wait_push", "wq_wake_pop"} /\ ~cx[c].spin

C34_LockState ==
    /\ \A c \in WaitersLockHolders : rflags_if = FALSE /\ cur = c /\ InWq(c)
    /\ \A c \in Contexts :
           cx[c].pc \in {"wq_wait_block", "wq_wake_unblock"} => ~cx[c].spin
    /\ \A c \in Contexts : AtWaitersLock(c) => WaitersLockFree(c)

\* C34: the lock of the wait queue is held only with RFLAGS.IF clear and by the
\* context that runs, it is free when block_current_task or unblock_task is
\* called, no step switches the CPU to another context or changes the set of
\* blocked tasks while it is held, and a context that comes to
\* self.waiters.lock() finds the lock free, so it does not spin
C34_LockStep ==
    /\ C34_LockState /\ C34_LockState'
    /\ cur' # cur \/ blocked' # blocked =>
           WaitersLockHolders = {} /\ WaitersLockHolders' = {}

C34_WaitQueueLockShort == [][C34_LockStep]_vars

\* a task holds the lock inside the allocation made by push_back, outside an
\* interrupt handler
C34_Witness ==
    /\ \E c \in Tasks : cx[c].spin /\ cx[c].pc \notin {"wq_wait_push", "wq_wait_exit"}
    /\ cx["irq"].pc = "off"

\* the interrupt handler holds the lock in wake_one while a task it interrupted
\* stands between its push and block_current_task
C34_WitnessHandler ==
    /\ cx["irq"].spin /\ cx["irq"].pc = "wq_wake_exit"
    /\ \E c \in Tasks : cx[c].pc = "wq_wait_block"

\* ---------------------------------------------------------------------------
\* The dirty rectangle of the shadow buffer (SpecRender, SpecGfx)
\* ---------------------------------------------------------------------------

\* the rectangle of a command on the screen, as the dirty-rect rules give it
AbsoluteFootprint(region, cmd) ==
    LET w == CASE cmd.kind = "Clear" -> region.width
               [] cmd.kind = "DrawChar" -> 8
               [] cmd.kind = "DrawString" -> 8 * Len(cmd.text)
               [] cmd.kind = "FillRect" -> cmd.width
        h == CASE cmd.kind = "Clear" -> region.height
               [] cmd.kind = "FillRect" -> cmd.height
               [] OTHER -> 8
    IN  IF cmd.kind = "Clear" THEN Region(region.x, region.y, w, h)
        ELSE Region(region.x + cmd.x, region.y + cmd.y, w, h)

\* the rectangles that take part in a bounding box with r: p, when there is one
BoxParts(p, r) == IF p.some THEN {p, r} ELSE {r}

\* rectangle d is the bounding box of p and r: it holds both, and each of its
\* edges is an edge of one of them
IsBoundingBox(d, p, r) ==
    /\ d.some
    /\ \A q \in BoxParts(p, r) :
           /\ d.x <= q.x /\ q.x + q.width <= d.x + d.width
           /\ d.y <= q.y /\ q.y + q.height <= d.y + d.height
    /\ \E q \in BoxParts(p, r) : d.x = q.x
    /\ \E q \in BoxParts(p, r) : d.y = q.y
    /\ \E q \in BoxParts(p, r) : d.x + d.width = q.x + q.width
    /\ \E q \in BoxParts(p, r) : d.y + d.height = q.y + q.height

\* the rectangles with edges taken from p and r
BoxCandidates(p, r) ==
    {SomeDirty(a.x, b.y, c.x + c.width - a.x, e.y + e.height - b.y) :
         a \in BoxParts(p, r), b \in BoxParts(p, r), c \in BoxParts(p, r),
         e \in BoxParts(p, r)}

\* a chain of rectangles from p to d, one bounding box per command
RECURSIVE GrowsByCommands(_, _, _, _)
GrowsByCommands(d, p, region, commands) ==
    IF commands = <<>> THEN d = p
    ELSE \E m \in BoxCandidates(p, AbsoluteFootprint(region, Head(commands))) :
             /\ IsBoundingBox(m, p, AbsoluteFootprint(region, Head(commands)))
             /\ GrowsByCommands(d, m, region, Tail(commands))

C35_RenderStep ==
    gfx_op'.kind = "render" =>
        GrowsByCommands(gt'[CompositorTask].dirty_rect, gt[CompositorTask].dirty_rect,
                        wbuf'[gfx_op'.buffer].region, gt'[CompositorTask].commands_copy)

\* C35: rendering the commands of a buffer takes the accumulated dirty
\* rectangle through one bounding box per command, each of the rectangle so far
\* and the command's footprint on the screen: the region for Clear, 8 x 8 at
\* (region.x + x, region.y + y) for DrawChar, (8 * len(text)) x 8 for DrawString,
\* w x h for FillRect
C35_DirtyRectGrows == [][C35_RenderStep]_vars

\* a dirty rectangle that two commands of a buffer away from the origin have
\* made larger than either footprint
C35_Witness ==
    /\ gfx_op.kind = "render" /\ Len(gt[CompositorTask].commands_copy) = 2
    /\ wbuf[1].region.x = 80
    /\ gt[CompositorTask].dirty_rect = SomeDirty(84, 2, 44, 10)

\* the step that ends Phase 4 of a frame
FrameEnds == gt[CompositorTask].pc = "blit" /\ gt'[CompositorTask].pc = "sleep"

C36_BlitStep ==
    FrameEnds =>
        /\ gfx_op'.kind = "blit" <=> gt[CompositorTask].dirty_rect.some
        /\ gfx_op'.kind = "blit" => hw_fb' = shadow /\ ~gt'[CompositorTask].dirty_rect.some

\* C36: at the end of a frame the shadow buffer is copied to the hardware frame
\* buffer exactly if the accumulated dirty rectangle is not empty, and after
\* the copy the dirty rectangle is empty
C36_BlitIffDirty == [][C36_BlitStep]_vars

\* the copy is made at the end of every frame of the normal mode and takes the
\* whole shadow buffer
C36_BlitEveryFrameStep ==
    FrameEnds /\ ~vis_mode =>
        /\ gfx_op'.kind = "blit" /\ hw_fb' = shadow
        /\ gt'[CompositorTask].dirty_rect = gt[CompositorTask].dirty_rect

C36_BlitEveryFrame == [][C36_BlitEveryFrameStep]_vars

\* a frame that rendered nothing has copied the shadow buffer
C36_WitnessCleanFrame ==
    /\ gfx_op.kind = "blit" /\ ~gt[CompositorTask].dirty_rect.some

\* a frame that rendered commands has copied the shadow buffer and the dirty
\* rectangle is what it was
C36_WitnessDirtyFrame ==
    /\ gfx_op.kind = "blit" /\ gt[CompositorTask].dirty_rect.some

\* ---------------------------------------------------------------------------
\* The dirty flag of a writer buffer (SpecBuffer)
\* ---------------------------------------------------------------------------

\* C39: after any sequence of push_command, extend_commands (also with an
\* iterator that yields nothing) and clear_commands the dirty flag of a writer
\* buffer is set exactly if its command list is not empty, so a buffer whose
\* is_dirty() is false holds no command
C39_DirtyIffCommands ==
    \A i \in 1 .. Len(wbuf) : wbuf[i].dirty <=> wbuf[i].commands # <<>>

\* extend_commands with an empty iterator has been called on a buffer that was
\* cleared before and is clean
C39_Witness ==
    /\ gfx_op.kind = "extend_commands" /\ ~gfx_op.ok
    /\ wbuf[1].commands = <<>> /\ ~wbuf[1].dirty

\* extend_commands with an empty iterator on a buffer that holds commands
C39_WitnessPending ==
    /\ gfx_op.kind = "extend_commands" /\ ~gfx_op.ok
    /\ Len(wbuf[1].commands) = 2 /\ wbuf[1].dirty

\* ---------------------------------------------------------------------------
\* The blocks of the heap (SpecHeap)
\* ---------------------------------------------------------------------------

\* the blocks on the free lists of the slab classes and of the buddy orders
SlabFree == UNION {{[ptr |-> slab[c][i], size |-> ClassSize(c)] : i \in 1 .. Len(slab[c])} :
                       c \in Classes}
BuddyFree == UNION {{[ptr |-> buddy[o][i], size |-> order_to_size(o)] : i \in 1 .. Len(buddy[o])} :
                        o \in Orders}

\* the blocks handed out and not given back, each with the bytes of its class or order
LiveBlocks == {[ptr |-> b.ptr, size |-> BlockBytes(b.tier, b.idx)] : b \in live}

HeapBlocks == SlabFree \cup BuddyFree \cup LiveBlocks

\* the number of entries of all buddy free lists
BuddyFreeCount ==
    LET RECURSIVE Sum(_)
        Sum(o) == IF o < 0 THEN 0 ELSE Len(buddy[o]) + Sum(o - 1)
    IN  Sum(MAX_ORDER - 1)

\* C37: after init_heap and any alloc and dealloc calls that free live blocks
\* with their layout, the blocks on the slab and buddy free lists and the live
\* blocks lie inside the heap region, no two of them share a byte, and no
\* address is on the free lists twice
C37_BlocksDisjoint ==
    heap_inited =>
        LET starts == {b.ptr : b \in HeapBlocks}
        IN  /\ \A b \in HeapBlocks :
                   /\ b.size > 0
                   /\ heap_cfg.start <= b.ptr
                   /\ b.ptr + b.size <= heap_cfg.start + heap_cfg.size
                   /\ {s \in starts : b.ptr <= s /\ s < b.ptr + b.size} = {b.ptr}
            /\ Cardinality({b.ptr : b \in SlabFree \cup BuddyFree})
                   = SlabFreeBlocks(slab) + BuddyFreeCount
            /\ Cardinality(starts) = SlabFreeBlocks(slab) + BuddyFreeCount + Cardinality(live)

\* a block split off by the buddy tier is live next to its free upper half,
\* and a slab block is live too
C37_Witness ==
    /\ heap_inited
    /\ \E b \in live : b.tier = "buddy" /\ is_in_free_list(buddy, b.ptr + order_to_size(b.idx), b.idx)
    /\ \E b \in live : b.tier = "slab"

\* ---------------------------------------------------------------------------
\* Wake-ups of the wait queue (SpecWqFair)
\* ---------------------------------------------------------------------------

\* a wake_one or wake_all has taken the id of t from the queue
PoppedByWake(t) == sch_op.kind = "wq_pop" /\ sch_op.id = t

\* t is back from wait(): it is not Blocked and not before its block_current_task
BackFromWait(t) == sched.state[t] # "Blocked" /\ tcx[t].pc # "wait_block"

\* C38: a task whose id wait() has queued and a wake_one or wake_all has popped
\* does not stay Blocked for ever, wherever the timer pre-empts it between the
\* push and block_current_task
C38_NoLostWakeup == \A t \in SchedTasks : PoppedByWake(t) ~> BackFromWait(t)

\* t is Blocked by wait(), its id is in no queue and in no waker's hands
LostWakeup(t) ==
    /\ sched.state[t] = "Blocked"
    /\ \A i \in 1 .. Len(wq["wq"]) : wq["wq"][i] # t
    /\ \A w \in SchedTasks : tcx[w].tid # t

\* while the id of a Blocked task is neither queued nor held by a waker, no
\* step of the wait queue unblocks it
C38_LostStaysLost ==
    [][\A t \in SchedTasks : LostWakeup(t) => LostWakeup(t)']_vars

\* a task blocked after its id had been popped and unblock_task had found it
\* Ready
C38_WitnessLost == \E t \in SchedTasks : LostWakeup(t) /\ sch_op.kind = "block_current_task"
    /\ sch_op.who = t

\* a wake-up that arrives after the block: the task is Ready again
C38_WitnessWoken ==
    /\ sch_op.kind = "unblock_task" /\ sch_op.id \in sch_op.woken
    /\ BackFromWait(sch_op.id)

\* ---------------------------------------------------------------------------
\* Commands and frames (SpecGfx, SpecGfxVis)
\* ---------------------------------------------------------------------------

\* the compositor is through with a buffer it has rendered
BufferDone == gfx_op'.kind \in {"clear", "vis_clear"}

C40_ConsumeStep ==
    LET l == gt[CompositorTask]
        i == gfx_op'.buffer
    IN  /\ BufferDone =>
               /\ gfx_op'.ok => wbuf[i].commands = l.commands_copy
               /\ wbuf'[i].commands = <<>> /\ ~wbuf'[i].dirty
        /\ \A k \in 1 .. Len(wbuf) :
               Len(wbuf'[k].commands) < Len(wbuf[k].commands) => BufferDone /\ k = i

\* C40: every command a writer pushes is rendered exactly once: the commands
\* the compositor takes out of a buffer are the ones it has just rendered from
\* it, nothing else takes a command out, and when the compositor leaves a
\* buffer it has rendered the buffer is empty, so no later frame renders the
\* same commands again
C40_RenderedExactlyOnce == [][C40_ConsumeStep]_vars

\* the normal mode: the compositor has cleared a buffer whose two commands it
\* rendered under the lock
C40_WitnessNormal ==
    /\ gfx_op.kind = "clear" /\ ~vis_mode
    /\ \E e \in gt[CompositorTask].consumed : e.buffer = gfx_op.buffer /\ Len(e.commands) = 2

\* with visualize-pipeline the compositor has come back to a buffer whose
\* commands it has rendered and has not got the lock: the commands stay in the
\* buffer for the next frame
C40_WitnessKept ==
    /\ gfx_op.kind = "vis_clear" /\ ~gfx_op.ok /\ vis_mode
    /\ wbuf[gfx_op.buffer].commands # <<>> /\ wbuf[gfx_op.buffer].dirty
    /\ OverlayTask \in wbuf[gfx_op.buffer].lock.guards

====
